---- MODULE Spec2Model ----
(***************************************************************************)
(* A model of the extraction-normalization-dedup pipeline of the UMN       *)
(* housing scraper (scraper/main.py, scraper/umn_listings.py).             *)
(*                                                                         *)
(* Two state machines share the module:                                    *)
(*   SpecGeo  one call after another of main.py's geocode_address, at the  *)
(*            grain of single requests to the geocoding service;           *)
(*   Spec     runs of main.py's main() and of umn_listings.py's main():    *)
(*            scrape buildings, then geocode, filter, merge and rewrite    *)
(*            the accumulated store.                                       *)
(*                                                                         *)
(* Encodings.  Time is counted in tenths of a second.  A Python float is an  *)
(* integer count of 1e-4: a latitude of 44.98 is 449800, 1.0 bedroom is     *)
(* 10000, 0.9 km is 9000.  A text the code looks inside (an address handed  *)
(* to geocode_address) is a sequence of one-character strings; a text the   *)
(* code only copies, compares or converts (a CSV cell) is a TLA+ string.    *)
(***************************************************************************)
EXTENDS Integers, Sequences, FiniteSets, TLC

VARIABLES
    \* ---- geocode_address (main.py), one call at a time
    g_pc,         \* "idle" | "variant" (top of the for loop) | "request" | "done"
    g_address,    \* the argument of the call
    g_variants,   \* what generate_variants(address) yields, in order
    g_idx,        \* position of the generator: next element of g_variants
    g_attempted,  \* attempted = set()
    g_variant,    \* the loop variable `variant`
    g_attempt,    \* the loop variable `attempt` of range(2)
    g_sent,       \* history: the query of every request of this call, in order
    g_first,      \* history: kind of the first response for g_variant, "none" before
    g_last,       \* history: the most recent response of this call
    g_gap,        \* history: time between the two most recent requests
    g_since,      \* time elapsed since the most recent request was sent (capped)
    g_result,     \* the value returned by the call
    \* ---- a run of main() (main.py or umn_listings.py)
    program,          \* which script is run: "main" | "umn_listings"
    pc,               \* "idle" | "scraping" | "stopped" (loop left early) | "done"
    runs,             \* how many runs were started
    visited,          \* the pages scraped in this run, by URL or property id
    all_units,        \* all_units: the units scraped in this run
    filtered_units,   \* filtered_units: what geocode_and_filter_units returned
    PERSISTENT_CSV,   \* the accumulated store: the file at PERSISTENT_CSV
    OUTPUT_CSV,       \* the session snapshot: the file at OUTPUT_CSV
    OUTPUT_CSV_ALL,   \* the unfiltered snapshot: the file at OUTPUT_CSV_ALL
    no_prefilter_csv, \* history: the store had every run passed no existing ids
    consecutive_failures, \* consecutive_failures of main.py's main()
    SCRAPED_URLS_FILE,    \* the tracking file: the URLs written in it
    scraped_urls,         \* scraped_urls of main(): the URLs this run skips
    \* ---- one call of auto_restart_scraper (main.py)
    a_pc,             \* "idle" | "loop" (at the while test) | "session" | "done"
    a_args,           \* max_sessions and target_listings of the call
    session_num,      \* session_num
    current_location, \* current_location of the session
    location_counts,  \* location_counts: a count for each location searched
    total_listings,   \* how many records load_existing_listings finds in the store
    a_last,           \* history: how the latest session ended
    a_reached,        \* history: a session ended with the store at the target
    \* ---- one call of a function of the scrapers on its own
    f_pc,             \* "idle" | "called" | "returned"
    f_args,           \* the arguments of the call
    f_ret             \* the value returned

geoVars == <<g_pc, g_address, g_variants, g_idx, g_attempted, g_variant,
             g_attempt, g_sent, g_first, g_last, g_gap, g_since, g_result>>

trackVars == <<consecutive_failures, SCRAPED_URLS_FILE, scraped_urls>>

runVars == <<program, pc, runs, visited, all_units, filtered_units, PERSISTENT_CSV,
             OUTPUT_CSV, OUTPUT_CSV_ALL, no_prefilter_csv, trackVars>>

autoVars == <<a_pc, a_args, session_num, current_location, location_counts,
              total_listings, a_last, a_reached>>

fnVars == <<f_pc, f_args, f_ret>>

vars == <<geoVars, runVars, fnVars, autoVars>>

-----------------------------------------------------------------------------
(* Python values.                                                          *)

None == [t |-> "None"]

Min(a, b) == IF a <= b THEN a ELSE b

Abs(n) == IF n < 0 THEN -n ELSE n

-----------------------------------------------------------------------------
(* Configuration.                                                          *)

\* GEOCODE_DELAY_SECONDS = 1.5, in tenths of a second
GEOCODE_DELAY_SECONDS == 15

\* time.sleep(1) before the second attempt, in tenths of a second
RETRY_SLEEP == 10

\* Elapsed time is tracked up to this many tenths of a second.
MaxElapsed == 20

\* A response may take this many tenths of a second to arrive.
MaxLatency == 1

-----------------------------------------------------------------------------
(* Characters and the regular expressions of generate_variants.            *)

Digits == {"0", "1", "2", "3", "4", "5", "6", "7", "8", "9"}

Letters == {"a", "b", "c", "d", "e", "f", "g", "h", "i", "j", "k", "l", "m",
            "n", "o", "p", "q", "r", "s", "t", "u", "v", "w", "x", "y", "z",
            "A", "B", "C", "D", "E", "F", "G", "H", "I", "J", "K", "L", "M",
            "N", "O", "P", "Q", "R", "S", "T", "U", "V", "W", "X", "Y", "Z"}

\* \d
IsDigit(c) == c \in Digits

\* \s
IsSpace(c) == c = " "

\* \w, the class \b is defined by
IsWord(c) == c \in Digits \cup Letters \cup {"_"}

RECURSIVE lstrip(_)
lstrip(s) == IF s # <<>> /\ IsSpace(Head(s)) THEN lstrip(Tail(s)) ELSE s

RECURSIVE rstrip(_)
rstrip(s) ==
    IF s # <<>> /\ IsSpace(s[Len(s)]) THEN rstrip(SubSeq(s, 1, Len(s) - 1)) ELSE s

\* str.strip()
strip(s) == rstrip(lstrip(s))

\* Length of the longest run of digits of s that starts at position i (\d+, greedy).
RECURSIVE DigitRun(_, _)
DigitRun(s, i) == IF i <= Len(s) /\ IsDigit(s[i]) THEN 1 + DigitRun(s, i + 1) ELSE 0

\* Length of the longest run of spaces of s that starts at position i (\s*, \s+).
RECURSIVE SpaceRun(_, _)
SpaceRun(s, i) == IF i <= Len(s) /\ IsSpace(s[i]) THEN 1 + SpaceRun(s, i + 1) ELSE 0

\* Position of the first c in s, 0 when there is none.
IndexOf(s, c) ==
    IF \E i \in 1..Len(s) : s[i] = c
    THEN CHOOSE i \in 1..Len(s) : s[i] = c /\ \A j \in 1..(i - 1) : s[j] # c
    ELSE 0

\* re.sub(r'^\s*(\d+)-\d+(\s+)', r'\1\2', addr)
first_only(addr) ==
    LET ws   == SpaceRun(addr, 1)
        d1   == DigitRun(addr, ws + 1)
        dash == ws + d1 + 1
        d2   == IF dash <= Len(addr) /\ addr[dash] = "-"
                THEN DigitRun(addr, dash + 1) ELSE 0
        sp   == SpaceRun(addr, dash + d2 + 1)
    IN  IF d1 > 0 /\ d2 > 0 /\ sp > 0
        THEN SubSeq(addr, ws + 1, ws + d1) \o SubSeq(addr, dash + d2 + 1, Len(addr))
        ELSE addr

\* Whether \b(\d+)-\d+\b matches at position i of s: <<length of group 1, last
\* position of the match>>, <<0, 0>> when it does not.
RangeAt(s, i) ==
    LET d1   == DigitRun(s, i)
        dash == i + d1
        d2   == IF d1 > 0 /\ dash <= Len(s) /\ s[dash] = "-"
                THEN DigitRun(s, dash + 1) ELSE 0
        end  == dash + d2
    IN  IF /\ d1 > 0
           /\ d2 > 0
           /\ (i = 1 \/ ~IsWord(s[i - 1]))
           /\ (end = Len(s) \/ ~IsWord(s[end + 1]))
        THEN <<d1, end>>
        ELSE <<0, 0>>

RECURSIVE SubRanges(_, _)
SubRanges(s, i) ==
    IF i > Len(s) THEN <<>>
    ELSE LET m == RangeAt(s, i)
         IN  IF m[1] > 0
             THEN SubSeq(s, i, i + m[1] - 1) \o SubRanges(s, m[2] + 1)
             ELSE <<s[i]>> \o SubRanges(s, i + 1)

\* re.sub(r'\b(\d+)-\d+\b', r'\1', addr)
no_range(addr) == SubRanges(addr, 1)

\* addr.split(',', 1)[1].strip(), for an addr that holds a comma
after_comma(addr) == strip(SubSeq(addr, IndexOf(addr, ",") + 1, Len(addr)))

RECURSIVE SubParens(_, _)
SubParens(s, i) ==
    IF i > Len(s) THEN <<>>
    ELSE IF s[i] = "(" /\ \E j \in (i + 1)..Len(s) : s[j] = ")"
         THEN LET close == CHOOSE j \in (i + 1)..Len(s) :
                               s[j] = ")" /\ \A k \in (i + 1)..(j - 1) : s[k] # ")"
              IN  SubParens(s, close + 1)
         ELSE <<s[i]>> \o SubParens(s, i + 1)

\* re.sub(r'\([^)]*\)', '', addr).strip()
no_parens(addr) == strip(SubParens(addr, 1))

\* re.search(r'(\d{5})', addr): position of the match, 0 when there is none
ZipAt(addr) ==
    IF \E i \in 1..Len(addr) : DigitRun(addr, i) >= 5
    THEN CHOOSE i \in 1..Len(addr) :
             DigitRun(addr, i) >= 5 /\ \A j \in 1..(i - 1) : DigitRun(addr, j) < 5
    ELSE 0

\* f"{street}, {zip_match.group(1)}" with street = addr.split(',')[0].strip()
street_zip(addr) ==
    LET comma  == IndexOf(addr, ",")
        street == strip(IF comma = 0 THEN addr ELSE SubSeq(addr, 1, comma - 1))
        z      == ZipAt(addr)
    IN  street \o <<",", " ">> \o SubSeq(addr, z, z + 4)

\* generate_variants reordered: the comma variant before the range variants.
generate_variants_reordered(addr) ==
    <<strip(addr)>>
    \o (IF IndexOf(addr, ",") # 0 /\ after_comma(addr) # <<>>
        THEN <<after_comma(addr)>> ELSE <<>>)
    \o (IF first_only(addr) # addr THEN <<strip(first_only(addr))>> ELSE <<>>)
    \o (IF no_range(addr) # addr /\ no_range(addr) # first_only(addr)
        THEN <<strip(no_range(addr))>> ELSE <<>>)
    \o <<no_parens(addr)>>
    \o (IF ZipAt(addr) # 0 THEN <<street_zip(addr)>> ELSE <<>>)

\* The generator generate_variants(addr), as the sequence of what it yields.
generate_variants(addr) ==
    <<strip(addr)>>
    \o (IF first_only(addr) # addr THEN <<strip(first_only(addr))>> ELSE <<>>)
    \o (IF no_range(addr) # addr /\ no_range(addr) # first_only(addr)
        THEN <<strip(no_range(addr))>> ELSE <<>>)
    \o (IF IndexOf(addr, ",") # 0 /\ after_comma(addr) # <<>>
        THEN <<after_comma(addr)>> ELSE <<>>)
    \o <<no_parens(addr)>>
    \o (IF ZipAt(addr) # 0 THEN <<street_zip(addr)>> ELSE <<>>)

-----------------------------------------------------------------------------
(* The addresses geocode_address is called with.                           *)

\* "3413-3433 53rd Ave, Minneapolis, MN"
ExampleAddress ==
    <<"3", "4", "1", "3", "-", "3", "4", "3", "3", " ", "5", "3", "r", "d", " ",
      "A", "v", "e", ",", " ", "M", "i", "n", "n", "e", "a", "p", "o", "l", "i",
      "s", ",", " ", "M", "N">>

\* "3413 53rd Ave, Minneapolis, MN"
CollapsedExample ==
    <<"3", "4", "1", "3", " ", "5", "3", "r", "d", " ", "A", "v", "e", ",", " ",
      "M", "i", "n", "n", "e", "a", "p", "o", "l", "i", "s", ",", " ", "M", "N">>

\* "1-3 A (B) 5-7, MN 55414": every rewrite gives a different string
FullAddress ==
    <<"1", "-", "3", " ", "A", " ", "(", "B", ")", " ", "5", "-", "7", ",", " ",
      "M", "N", " ", "5", "5", "4", "1", "4">>

\* " 1-3 Elm": the two range rewrites differ before strip() and agree after it
LeadingSpaceAddress == <<" ", "1", "-", "3", " ", "E", "l", "m">>

\* "12 Oak St"
PlainAddress == <<"1", "2", " ", "O", "a", "k", " ", "S", "t">>

GeoAddresses ==
    {ExampleAddress, FullAddress, LeadingSpaceAddress, PlainAddress, <<>>, <<" ">>}

-----------------------------------------------------------------------------
(* The geocoding service.                                                  *)

\* (44.98, -93.23), about 1 km from the campus
NearPoint == [lat |-> 449800, lon |-> -932300]

\* (44.87, -93.28), about 12 km from the campus
FarPoint == [lat |-> 448700, lon |-> -932800]

\* (45.063, -93.2359), just inside the radius of 10 km: 9.996 km from the campus
EdgePoint == [lat |-> 450630, lon |-> -932359]

\* What one requests.get plus response.json() can come to:
\*   exception  requests.get raised (timeout, connection error)
\*   http5xx    a status in 500..599
\*   http4xx    any other status than 200
\*   empty      status 200, the JSON array is empty
\*   malformed  status 200, the body is no JSON or its first element has no lat/lon
\*   ok         status 200, data[0] holds lat and lon
Responses ==
    {[kind |-> k] : k \in {"exception", "http5xx", "http4xx", "empty", "malformed"}}
    \cup {[kind |-> "ok", pt |-> p] : p \in {NearPoint, FarPoint}}


-----------------------------------------------------------------------------
(* geocode_address of main.py, one request at a time.                      *)

\* time.sleep(d): at least d passes
Elapse(d) == Min(MaxElapsed, g_since + d)

\* The attempt loop with range(3) in place of range(2).
AttemptOutcomeThreeTries(resp, attempt) ==
    CASE resp.kind = "ok" -> "return"
      [] resp.kind \in {"exception", "http5xx"} ->
            IF attempt < 2 THEN "retry" ELSE "next"
      [] OTHER -> "next"

\* The attempt loop with the retry on the wrong side of the status test:
\* a 5xx breaks, any other failing status continues.
AttemptOutcomeRetryOn4xx(resp, attempt) ==
    CASE resp.kind = "ok" -> "return"
      [] resp.kind \in {"exception", "http4xx"} ->
            IF attempt = 0 THEN "retry" ELSE "next"
      [] OTHER -> "next"

\* What the body of `for attempt in range(2)` does with a response:
\*   "return"  return {'lat': lat, 'lon': lon}
\*   "retry"   continue, with another attempt left
\*   "next"    break, or continue with no attempt left: on to the next variant
AttemptOutcome(resp, attempt) ==
    CASE resp.kind = "exception" -> IF attempt = 0 THEN "retry" ELSE "next"
      [] resp.kind = "ok"        -> "return"
      [] resp.kind = "empty"     -> "next"
      [] resp.kind = "malformed" -> "next"
      [] resp.kind = "http5xx"   -> IF attempt = 0 THEN "retry" ELSE "next"
      [] OTHER                   -> "next"

\* The time.sleep(1) calls of the attempt loop.
PauseAfter(resp, attempt) ==
    CASE resp.kind = "exception" -> IF attempt = 0 THEN RETRY_SLEEP ELSE 0
      [] resp.kind = "http5xx"   -> RETRY_SLEEP
      [] OTHER                   -> 0

\* {'lat': float(data[0].get('lat')), 'lon': float(data[0].get('lon'))}
ReturnValue(resp) == [lat |-> resp.pt.lat, lon |-> resp.pt.lon]

InitGeo ==
    /\ g_pc = "idle"
    /\ g_address = <<>>
    /\ g_variants = <<>>
    /\ g_idx = 1
    /\ g_attempted = {}
    /\ g_variant = <<>>
    /\ g_attempt = 0
    /\ g_sent = <<>>
    /\ g_first = "none"
    /\ g_last = [kind |-> "none"]
    /\ g_gap = MaxElapsed
    /\ g_since = MaxElapsed
    /\ g_result = None

\* geocode_address(addr) is called: the generator and `attempted` are set up.
GeoCall(addr) ==
    /\ g_pc \in {"idle", "done"}
    /\ g_pc' = "variant"
    /\ g_address' = addr
    /\ g_variants' = generate_variants(addr)
    /\ g_idx' = 1
    /\ g_attempted' = {}
    /\ g_variant' = <<>>
    /\ g_attempt' = 0
    /\ g_sent' = <<>>
    /\ g_first' = "none"
    /\ g_last' = [kind |-> "none"]
    /\ g_result' = None
    /\ UNCHANGED <<g_gap, g_since>>
    /\ UNCHANGED <<runVars, fnVars, autoVars>>

\* `if not variant: continue` and `if variant in attempted: continue`
GeoSkipVariant ==
    /\ g_pc = "variant"
    /\ g_idx <= Len(g_variants)
    /\ g_variants[g_idx] = <<>> \/ g_variants[g_idx] \in g_attempted
    /\ g_idx' = g_idx + 1
    /\ UNCHANGED <<g_pc, g_address, g_variants, g_attempted, g_variant, g_attempt,
                   g_sent, g_first, g_last, g_gap, g_since, g_result>>
    /\ UNCHANGED <<runVars, fnVars, autoVars>>

\* attempted.add(variant); time.sleep(GEOCODE_DELAY_SECONDS); enter the attempt loop
GeoTakeVariant ==
    /\ g_pc = "variant"
    /\ g_idx <= Len(g_variants)
    /\ g_variants[g_idx] # <<>>
    /\ g_variants[g_idx] \notin g_attempted
    /\ g_attempted' = g_attempted \cup {g_variants[g_idx]}
    /\ g_variant' = g_variants[g_idx]
    /\ g_idx' = g_idx + 1
    /\ g_attempt' = 0
    /\ g_first' = "none"
    /\ g_since' = Elapse(GEOCODE_DELAY_SECONDS)
    /\ g_pc' = "request"
    /\ UNCHANGED <<g_address, g_variants, g_sent, g_last, g_gap, g_result>>
    /\ UNCHANGED <<runVars, fnVars, autoVars>>

\* One pass of the attempt loop: requests.get, then the handling of what came back.
GeoRequest(resp, latency) ==
    /\ g_pc = "request"
    /\ g_sent' = Append(g_sent, g_variant)
    /\ g_gap' = g_since
    /\ g_last' = resp
    /\ g_first' = IF g_first = "none" THEN resp.kind ELSE g_first
    /\ g_since' = Min(MaxElapsed, latency + PauseAfter(resp, g_attempt))
    /\ LET outcome == AttemptOutcome(resp, g_attempt)
       IN  CASE outcome = "return" ->
                    /\ g_result' = ReturnValue(resp)
                    /\ g_pc' = "done"
                    /\ UNCHANGED g_attempt
             [] outcome = "retry" ->
                    /\ g_attempt' = g_attempt + 1
                    /\ UNCHANGED <<g_pc, g_result>>
             [] OTHER ->
                    /\ g_pc' = "variant"
                    /\ UNCHANGED <<g_attempt, g_result>>
    /\ UNCHANGED <<g_address, g_variants, g_idx, g_attempted, g_variant>>
    /\ UNCHANGED <<runVars, fnVars, autoVars>>

\* The generator is exhausted: `return None`
GeoExhausted ==
    /\ g_pc = "variant"
    /\ g_idx > Len(g_variants)
    /\ g_result' = None
    /\ g_pc' = "done"
    /\ UNCHANGED <<g_address, g_variants, g_idx, g_attempted, g_variant, g_attempt,
                   g_sent, g_first, g_last, g_gap, g_since>>
    /\ UNCHANGED <<runVars, fnVars, autoVars>>

GeoNext ==
    \/ \E addr \in GeoAddresses : GeoCall(addr)
    \/ GeoSkipVariant
    \/ GeoTakeVariant
    \/ \E resp \in Responses, latency \in {0, MaxLatency} : GeoRequest(resp, latency)
    \/ GeoExhausted


-----------------------------------------------------------------------------
(* Histories of a call, read off g_sent.                                   *)

\* How many requests of this call carried the query q.
RECURSIVE CountOf(_, _)
CountOf(q, sent) ==
    IF sent = <<>> THEN 0
    ELSE (IF Head(sent) = q THEN 1 ELSE 0) + CountOf(q, Tail(sent))

\* g_sent with a request and its immediate retry counted as one query.
RECURSIVE Collapse(_)
Collapse(sent) ==
    IF Len(sent) <= 1 THEN sent
    ELSE IF sent[1] = sent[2] THEN Collapse(Tail(sent))
         ELSE <<sent[1]>> \o Collapse(Tail(sent))

\* seq without its empty elements and without repetitions of an earlier element.
RECURSIVE Distinct(_, _)
Distinct(seq, seen) ==
    IF seq = <<>> THEN <<>>
    ELSE IF Head(seq) = <<>> \/ Head(seq) \in seen
         THEN Distinct(Tail(seq), seen)
         ELSE <<Head(seq)>> \o Distinct(Tail(seq), seen \cup {Head(seq)})

\* The six rewrites of an address in the order of section 4.2: original, leading
\* range collapsed to its first endpoint, all ranges collapsed, text after the
\* first comma, parentheticals stripped, street plus zip.
SixRewrites(addr) ==
    <<strip(addr),
      strip(first_only(addr)),
      strip(no_range(addr)),
      IF IndexOf(addr, ",") # 0 THEN after_comma(addr) ELSE <<>>,
      no_parens(addr),
      IF ZipAt(addr) # 0 THEN street_zip(addr) ELSE <<>> >>

QueryOrder(addr) == Distinct(SixRewrites(addr), {})

Queries == Collapse(g_sent)

\* A decreasing measure of the work a call has left.
GeoMeasure ==
    IF g_pc \in {"idle", "done"} THEN 0
    ELSE 1 + 3 * (Len(g_variants) - g_idx + 1)
           + (IF g_pc = "request" THEN 2 - g_attempt ELSE 0)


-----------------------------------------------------------------------------
(* Python values of the fields of a record, and their text in a CSV cell.  *)

\* a float, counted in 1e-4
PyFloat(v) == [t |-> "float", v |-> v]

PyInt(n) == [t |-> "int", v |-> n]

PyBool(b) == [t |-> "bool", v |-> b]

PyStr(s) == [t |-> "str", v |-> s]

\* One unit in the count of a float.
Unit == 10000

\* n written on `width` digits, zeros in front.
RECURSIVE ZeroPad(_, _)
ZeroPad(n, width) ==
    IF width = 0 THEN "" ELSE ZeroPad(n \div 10, width - 1) \o ToString(n % 10)

\* The digits after the point: those of f/10^width, without the zeros at the end.
RECURSIVE FracDigits(_, _)
FracDigits(f, width) ==
    IF width > 1 /\ f % 10 = 0 THEN FracDigits(f \div 10, width - 1)
    ELSE ZeroPad(f, width)

\* str(x) of a float x: 44.98 -> "44.98", 1.0 -> "1.0", -93.2359 -> "-93.2359"
FloatStr(v) ==
    (IF v < 0 THEN "-" ELSE "") \o ToString(Abs(v) \div Unit) \o "."
        \o FracDigits(Abs(v) % Unit, 4)

\* What csv.DictWriter writes in a cell for a value: '' for None, str(value) else.
CellText(value) ==
    CASE value = None       -> ""
      [] value.t = "float"  -> FloatStr(value.v)
      [] value.t = "int"    -> ToString(value.v)
      [] value.t = "bool"   -> IF value.v THEN "True" ELSE "False"
      [] OTHER              -> value.v

-----------------------------------------------------------------------------
(* Distances.                                                              *)

\* UMN_CAMPUS_LAT = 44.9731, UMN_CAMPUS_LON = -93.2359
UMN_CAMPUS_LAT == 449731

UMN_CAMPUS_LON == -932359

\* SEARCH_RADIUS_KM = 10.0
SEARCH_RADIUS_KM == 10

\* The largest r in lo..hi with r*r <= n.
RECURSIVE IsqrtIn(_, _, _)
IsqrtIn(n, lo, hi) ==
    IF lo >= hi THEN lo
    ELSE LET mid == (lo + hi + 1) \div 2
         IN  IF mid * mid <= n THEN IsqrtIn(n, mid, hi) ELSE IsqrtIn(n, lo, mid - 1)

\* 10000 * cos(lat), by the expansion of cos about 45 degrees; lat in 1e-4 degree.
CosE4(lat) ==
    LET du == ((lat - 450000) * 17453) \div 10000
    IN  7071 - ((7071 * du) \div 1000000)
             - ((7071 * ((du * du) \div 2000000)) \div 1000000)

\* haversine_distance, in metres.  For points within a quarter of a degree of each
\* other and of latitude 45 the great-circle distance 6371 * c is, to a few metres,
\* the flat distance of 111.195 km per degree of latitude and
\* 111.195 km * sqrt(cos(lat1) * cos(lat2)) per degree of longitude.
HaversineMetres(lat1, lon1, lat2, lon2) ==
    LET x   == (Abs(lat2 - lat1) * 111195) \div 10000
        y0  == (Abs(lon2 - lon1) * 111195) \div 10000
        c12 == (CosE4(lat1) * CosE4(lat2)) \div 10000
    IN  IsqrtIn(x * x + ((y0 * y0) \div 10000) * c12, 0, 46000)

\* haversine_distance in kilometres, as a float
haversine_distance(lat1, lon1, lat2, lon2) ==
    10 * HaversineMetres(lat1, lon1, lat2, lon2)

\* round(x, 2) of a float
round2(v) == ((v + 50) \div 100) * 100

-----------------------------------------------------------------------------
(* UnitListing, and the building pages of apartments.com.                  *)

\* The fields of the dataclass that the model carries, in the order of the class:
\* three required texts, one more text, the float, int and bool fields that the
\* pipeline reads or converts.
FieldNames ==
    <<"listing_id", "building_name", "full_address", "city", "lat", "lon",
      "dist_to_campus_km", "beds", "sqft", "rent_min", "is_per_bed">>

Fields == {FieldNames[i] : i \in 1..Len(FieldNames)}

\* UnitListing(...), the fields not given left at their defaults
UnitListing(listing_id, building_name, full_address, city, lat, lon, beds, sqft, rent_min, is_per_bed) ==
    [listing_id |-> PyStr(listing_id), building_name |-> PyStr(building_name),
     full_address |-> PyStr(full_address), city |-> PyStr(city),
     lat |-> lat, lon |-> lon, dist_to_campus_km |-> None,
     beds |-> beds, sqft |-> sqft, rent_min |-> rent_min, is_per_bed |-> is_per_bed]

AddressA == "100 Oak St, Minneapolis, MN 55414"

AddressB == "9 Pine Ave, Minneapolis, MN 55455"

Addresses == {AddressA, AddressB}

\* A floorplan row, by what parse_bedroom_count, parse_sqft and parse_price_text
\* read in its text; rent_min = None stands for a row without a "$" amount.
Row(beds, sqft, rent_min) ==
    [beds |-> beds, sqft |-> sqft, rent_min |-> rent_min, is_per_bed |-> PyBool(FALSE)]

\* A building page, by what extract_building_info reads on it.  source_url is the
\* URL cut at its slashes.
OakPage ==
    [source_url |-> <<"https:", "", "www.apartments.com", "oak", "">>,
     building_name |-> "Oak", full_address |-> AddressA, city |-> "Minneapolis",
     lat |-> None, lon |-> None,
     rows |-> <<Row(PyFloat(1 * Unit), PyInt(700), PyFloat(900 * Unit)),
                Row(PyFloat(2 * Unit), PyInt(900), PyFloat(1200 * Unit)),
                Row(PyFloat(2 * Unit), PyInt(850), None)>>]

\* The same page some days later: one floorplan left, at another rent.
OakPageLater ==
    [OakPage EXCEPT !.rows = <<Row(PyFloat(1 * Unit), PyInt(700), PyFloat(950 * Unit))>>]

\* A second page of the same address; this one carries coordinates (JSON-LD), and
\* they lie just inside the radius.
AnnexPage ==
    [source_url |-> <<"https:", "", "www.apartments.com", "oak-annex", "">>,
     building_name |-> "Oak Annex", full_address |-> AddressA, city |-> "Minneapolis",
     lat |-> PyFloat(EdgePoint.lat), lon |-> PyFloat(EdgePoint.lon),
     rows |-> <<Row(PyFloat(1 * Unit), None, PyFloat(800 * Unit))>>]

\* A page of studios only, two floorplans.
PinePage ==
    [source_url |-> <<"https:", "", "www.apartments.com", "pine", "">>,
     building_name |-> "Pine", full_address |-> AddressB, city |-> "Minneapolis",
     lat |-> None, lon |-> None,
     rows |-> <<Row(PyFloat(0), PyInt(400), PyFloat(700 * Unit)),
                Row(PyFloat(0), PyInt(450), PyFloat(750 * Unit))>>]

BuildingPages == {OakPage, OakPageLater, AnnexPage, PinePage}

\* f"{...}" of beds or 0
BedsText(beds) ==
    IF beds = None \/ beds.v = 0 THEN "0" ELSE FloatStr(beds.v)

\* f"{building_data['source_url'].split('/')[-2]}-{beds or 0}bed"
ListingId(source_url, beds) ==
    source_url[Len(source_url) - 1] \o "-" \o BedsText(beds) \o "bed"

\* parse_unit_row: None for a row without a price, else the unit of the row
parse_unit_row(row, building_data) ==
    IF row.rent_min = None THEN None
    ELSE UnitListing(ListingId(building_data.source_url, row.beds),
                     building_data.building_name, building_data.full_address,
                     building_data.city, building_data.lat, building_data.lon,
                     row.beds, row.sqft, row.rent_min, row.is_per_bed)

\* extract_units: the units of the rows, in page order, the None left out
RECURSIVE UnitsOfRows(_, _)
UnitsOfRows(rows, building_data) ==
    IF rows = <<>> THEN <<>>
    ELSE LET unit == parse_unit_row(Head(rows), building_data)
         IN  (IF unit = None THEN <<>> ELSE <<unit>>)
                 \o UnitsOfRows(Tail(rows), building_data)

extract_units(page) == UnitsOfRows(page.rows, page)

-----------------------------------------------------------------------------
(* sample_units.                                                           *)

\* tuple comparison of Python: a < b
RECURSIVE LexLess(_, _)
LexLess(a, b) ==
    IF a = <<>> \/ b = <<>> THEN a = <<>> /\ b # <<>>
    ELSE Head(a) < Head(b) \/ (Head(a) = Head(b) /\ LexLess(Tail(a), Tail(b)))

\* x or 0, of an int or float field
OrZero(x) == IF x = None THEN 0 ELSE x.v

\* 1 for True, 0 for False
Truth(b) == IF b THEN 1 ELSE 0

\* The key with the first part turned round: an unknown sqft ranks first.
SqftKeyUnknownFirst(u) == <<Truth(u.sqft = None), OrZero(u.sqft)>>

\* key=lambda u: (u.sqft is not None, u.sqft or 0)
SqftKey(u) == <<Truth(u.sqft # None), OrZero(u.sqft)>>

\* key=lambda u: (u.sqft is not None, u.beds or 0, u.sqft or 0)
RemainingKey(u) == <<Truth(u.sqft # None), OrZero(u.beds), OrZero(u.sqft)>>

\* x in seq
In(x, seq) == \E i \in 1..Len(seq) : seq[i] = x

\* max(seq, key=SqftKey): the first of the elements with the largest key
MaxBySqft(seq) ==
    seq[CHOOSE i \in 1..Len(seq) :
            /\ \A j \in 1..Len(seq) : ~LexLess(SqftKey(seq[i]), SqftKey(seq[j]))
            /\ \A j \in 1..(i - 1) : LexLess(SqftKey(seq[j]), SqftKey(seq[i]))]

\* x put into the sorted seq behind every element whose key is not larger
RECURSIVE InsertSorted(_, _)
InsertSorted(seq, x) ==
    IF seq = <<>> THEN <<x>>
    ELSE IF LexLess(RemainingKey(x), RemainingKey(Head(seq))) THEN <<x>> \o seq
         ELSE <<Head(seq)>> \o InsertSorted(Tail(seq), x)

\* list.sort(key=RemainingKey): stable
RECURSIVE SortRemaining(_, _)
SortRemaining(seq, sorted) ==
    IF seq = <<>> THEN sorted
    ELSE SortRemaining(Tail(seq), InsertSorted(sorted, Head(seq)))

\* by_beds[beds] had the loop not asked for a rent.
ByBedsAnyRent(units, beds) == SelectSeq(units, LAMBDA u : u.beds = beds)

\* by_beds[beds]
ByBeds(units, beds) ==
    SelectSeq(units, LAMBDA u : u.beds = beds /\ u.rent_min # None)

\* for unit in remaining: append what is not selected yet, stop at two
RECURSIVE FillFrom(_, _)
FillFrom(selected, remaining) ==
    IF remaining = <<>> \/ Len(selected) >= 2 THEN selected
    ELSE FillFrom(IF In(Head(remaining), selected) THEN selected
                  ELSE Append(selected, Head(remaining)),
                  Tail(remaining))

sample_units(units) ==
    IF units = <<>> THEN <<>>
    ELSE LET one == ByBeds(units, PyFloat(1 * Unit))
             two == ByBeds(units, PyFloat(2 * Unit))
             selected == (IF one # <<>> THEN <<MaxBySqft(one)>> ELSE <<>>)
                             \o (IF two # <<>> THEN <<MaxBySqft(two)>> ELSE <<>>)
             remaining == SelectSeq(units,
                              LAMBDA u : ~In(u, selected) /\ u.rent_min # None)
             filled == IF Len(selected) < 2
                       THEN FillFrom(selected, SortRemaining(remaining, <<>>))
                       ELSE selected
         IN  SubSeq(filled, 1, Min(2, Len(filled)))

\* scrape_building: the sampled units of the page
scrape_building(page) == sample_units(extract_units(page))

-----------------------------------------------------------------------------
(* The property modals of listings.umn.edu (umn_listings.py).              *)

\* A row of the unit table of a modal, by what parse_beds, parse_sqft and
\* parse_rent read in its cells.
UnitRow(unit_label, beds, sqft, rent_min) ==
    [unit_label |-> unit_label, beds |-> beds, sqft |-> sqft, rent_min |-> rent_min,
     is_per_bed |-> PyBool(FALSE)]

DinkyModal ==
    [property_id |-> "101", building_name |-> "Dinky", full_address |-> AddressA,
     city |-> "Minneapolis", beds |-> None, rent_min |-> None,
     rows |-> <<UnitRow("A", PyFloat(1 * Unit), PyInt(600), PyFloat(800 * Unit)),
                UnitRow("", PyFloat(2 * Unit), PyInt(800), PyFloat(1100 * Unit))>>]

\* The same modal some days later: one unit left, at another rent.
DinkyModalLater ==
    [DinkyModal EXCEPT
        !.rows = <<UnitRow("A", PyFloat(1 * Unit), PyInt(600), PyFloat(850 * Unit))>>]

\* A modal without a unit table: one unit for the property.
ComoModal ==
    [property_id |-> "202", building_name |-> "Como", full_address |-> AddressB,
     city |-> "St. Paul", beds |-> PyFloat(1 * Unit), rent_min |-> PyFloat(700 * Unit),
     rows |-> <<>>]

\* A modal in which no address was found: full_address and city stay "".
NoAddressModal ==
    [property_id |-> "303", building_name |-> "Loft", full_address |-> "",
     city |-> "", beds |-> None, rent_min |-> None,
     rows |-> <<UnitRow("B", PyFloat(1 * Unit), PyInt(500), PyFloat(750 * Unit))>>]

PropertyModals == {DinkyModal, DinkyModalLater, ComoModal, NoAddressModal}

\* The characters of the city texts of the modals.
CityChars ==
    [c \in {"Minneapolis", "St. Paul", ""} |->
        CASE c = "Minneapolis" -> <<"M", "i", "n", "n", "e", "a", "p", "o", "l", "i", "s">>
          [] c = "St. Paul" -> <<"S", "t", ".", " ", "P", "a", "u", "l">>
          [] c = "" -> <<>>]

UpperCase ==
    <<"A", "B", "C", "D", "E", "F", "G", "H", "I", "J", "K", "L", "M",
      "N", "O", "P", "Q", "R", "S", "T", "U", "V", "W", "X", "Y", "Z">>

LowerCase ==
    <<"a", "b", "c", "d", "e", "f", "g", "h", "i", "j", "k", "l", "m",
      "n", "o", "p", "q", "r", "s", "t", "u", "v", "w", "x", "y", "z">>

\* str.lower() kept as it is: the mutation of the city test
lower_unchanged(s) == s

\* str.lower()
lower(s) ==
    [i \in 1..Len(s) |->
        IF \E k \in 1..26 : UpperCase[k] = s[i]
        THEN LowerCase[CHOOSE k \in 1..26 : UpperCase[k] = s[i]]
        ELSE s[i]]

\* sub in s
Contains(s, sub) ==
    \E i \in 0..(Len(s) - Len(sub)) : SubSeq(s, i + 1, i + Len(sub)) = sub

\* The city texts for which `unit.city and 'minneapolis' in unit.city.lower()` holds.
MinneapolisCities ==
    {c \in DOMAIN CityChars :
        /\ c # ""
        /\ Contains(lower(CityChars[c]),
                    <<"m", "i", "n", "n", "e", "a", "p", "o", "l", "i", "s">>)}

\* extract_property_from_modal: a unit per row of the unit table, with
\* listing_id = f"{property_id}_{unit_label or 'unit'}"; without a table one unit
\* with listing_id = property_id.
extract_property_from_modal(modal) ==
    IF modal.rows = <<>>
    THEN <<UnitListing(modal.property_id, modal.building_name, modal.full_address,
                       modal.city, None, None, modal.beds, None, modal.rent_min,
                       PyBool(FALSE))>>
    ELSE [i \in 1..Len(modal.rows) |->
            LET row == modal.rows[i]
            IN  UnitListing(modal.property_id \o "_"
                                \o (IF row.unit_label = "" THEN "unit" ELSE row.unit_label),
                            modal.building_name, modal.full_address, modal.city,
                            None, None, row.beds, row.sqft, row.rent_min,
                            row.is_per_bed)]

-----------------------------------------------------------------------------
(* CSV files: a file is absent, or a sequence of rows; a row gives every   *)
(* column of the header its text.                                          *)

Absent == [exists |-> FALSE]

\* row.get(key, default) of a row of csv.DictReader: its keys are the columns of
\* the header of the file.
Get(row, key, default) == IF key \in DOMAIN row THEN row[key] ELSE default

\* A dict, in insertion order: a sequence of [k |-> key, v |-> value].
Keys(dict) == {dict[i].k : i \in 1..Len(dict)}

\* dict[key]
Lookup(dict, key) == dict[CHOOSE i \in 1..Len(dict) : dict[i].k = key].v

\* dict[key] = value: a new key goes to the end, a key there keeps its place
DictSet(dict, key, value) ==
    IF key \in Keys(dict)
    THEN [i \in 1..Len(dict) |-> IF dict[i].k = key THEN [k |-> key, v |-> value]
                                 ELSE dict[i]]
    ELSE Append(dict, [k |-> key, v |-> value])

\* list(dict.values())
Values(dict) == [i \in 1..Len(dict) |-> dict[i].v]

\* asdict(u) for every u, or the dict itself, written by csv.DictWriter under the
\* header of FieldNames; a field that a dict lacks is written as restval, ''.
RowsOf(units) ==
    [i \in 1..Len(units) |->
        [f \in Fields |-> IF f \in DOMAIN units[i] THEN CellText(units[i][f]) ELSE ""]]

\* export_to_csv: the file holds the header and one row per unit
export_to_csv(units) == [exists |-> TRUE, rows |-> RowsOf(units)]

\* export_combined_csv: the same, on the path of the accumulated store
export_combined_csv(units) == [exists |-> TRUE, rows |-> RowsOf(units)]

\* The numbers that texts of the model stand for: coordinates, distances, and
\* what the floorplan rows of the pages hold.
Numbers ==
    LET pts  == {NearPoint, FarPoint, EdgePoint}
        rows == UNION {{p.rows[i] : i \in 1..Len(p.rows)} :
                          p \in BuildingPages \cup PropertyModals}
                    \cup {[beds |-> m.beds, sqft |-> None, rent_min |-> m.rent_min] :
                             m \in PropertyModals}
    IN  {p.lat : p \in pts} \cup {p.lon : p \in pts}
        \cup {round2(haversine_distance(p.lat, p.lon, UMN_CAMPUS_LAT, UMN_CAMPUS_LON)) :
                 p \in pts}
        \cup {r.beds.v : r \in {r \in rows : r.beds # None}}
        \cup {r.rent_min.v : r \in {r \in rows : r.rent_min # None}}
        \cup {r.sqft.v * Unit : r \in {r \in rows : r.sqft # None}}

\* The texts float() accepts, each with its number: "44.98", and "700" as well as
\* "700.0".
NumberOfText ==
    LET texts(v) == {FloatStr(v)}
                    \cup (IF v % Unit = 0 /\ v >= 0 THEN {ToString(v \div Unit)} ELSE {})
        all == UNION {texts(v) : v \in Numbers}
    IN  [s \in all |-> CHOOSE v \in Numbers : s \in texts(v)]

\* float(text); None stands for ValueError
float(text) ==
    IF text \in DOMAIN NumberOfText THEN PyFloat(NumberOfText[text]) ELSE None

\* int(float(text)) without the int(): the value stays a float
int_float_stays_float(text) ==
    IF text \in DOMAIN NumberOfText THEN PyFloat(NumberOfText[text]) ELSE None

\* int(float(text)); None stands for ValueError
int_float(text) ==
    IF text \in DOMAIN NumberOfText
    THEN PyInt(NumberOfText[text] \div Unit)
    ELSE None

FloatKeys == {"lat", "lon", "dist_to_campus_km", "beds", "rent_min"}

IntKeys == {"sqft"}

BoolKeys == {"is_per_bed"}

\* The type conversions of load_existing_listings on one row.  An empty cell of a
\* float or int column is left as it is, the empty string.
ConvertRow(row) ==
    [f \in DOMAIN row |->
        CASE f \in FloatKeys -> IF row[f] # "" THEN float(row[f]) ELSE PyStr("")
          [] f \in IntKeys   -> IF row[f] # "" THEN int_float(row[f]) ELSE PyStr("")
          [] f \in BoolKeys  -> IF row[f] \in {"True", "true", "1"} THEN PyBool(TRUE)
                                ELSE IF row[f] \in {"False", "false", "0"}
                                     THEN PyBool(FALSE)
                                     ELSE None
          [] OTHER           -> PyStr(row[f])]

\* dist <= SEARCH_RADIUS_KM with the distance taken for metres
WithinRadiusOfMetres(dist) == dist <= SEARCH_RADIUS_KM * 1000 * Unit

\* dist < SEARCH_RADIUS_KM
WithinRadiusStrictly(dist) == dist < SEARCH_RADIUS_KM * Unit

\* dist <= SEARCH_RADIUS_KM
WithinRadius(dist) == dist <= SEARCH_RADIUS_KM * Unit

\* The loop over the rows of the reader.  A row without listing_id is passed over;
\* a row beyond the radius is passed over; `dist > SEARCH_RADIUS_KM` on a dist
\* that is still a string raises, which ends the loop with what was loaded so far.
RECURSIVE LoadRows(_, _)
LoadRows(rows, existing) ==
    IF rows = <<>> THEN existing
    ELSE LET listing_id == Get(Head(rows), "listing_id", "")
             row == ConvertRow(Head(rows))
             dist == Get(row, "dist_to_campus_km", None)
         IN  IF listing_id = "" THEN LoadRows(Tail(rows), existing)
             ELSE IF dist # None /\ dist.t = "str" THEN existing
             ELSE IF dist # None /\ ~WithinRadius(dist.v)
                  THEN LoadRows(Tail(rows), existing)
             ELSE LoadRows(Tail(rows), DictSet(existing, listing_id, row))

\* load_existing_listings with the first row of the file taken for a header.
load_existing_listings_skip_first(file) ==
    IF file.exists /\ file.rows # <<>> THEN LoadRows(Tail(file.rows), <<>>) ELSE <<>>

\* load_existing_listings(csv_path), filter_by_distance = True
load_existing_listings(file) ==
    IF file.exists THEN LoadRows(file.rows, <<>>) ELSE <<>>

-----------------------------------------------------------------------------
(* geocode_and_filter_units and the merge.                                 *)

\* What geocode_address returns for each address of the batch in one run,
\* whatever requests it took: None or the coordinates.
ServiceBehaviours(units) ==
    [{units[i].full_address.v : i \in 1..Len(units)} \ {""}
        -> {None, NearPoint, FarPoint}]

\* The positions of `units` that the id pre-filter leaves in the list.
\* `if existing_ids:` is false for None and for the empty set.
KeptByPrefilter(units, existing_ids) ==
    {i \in 1..Len(units) :
        existing_ids = {} \/ units[i].listing_id.v \notin existing_ids}

\* address_units[0] of the address of units[i]: the first position in `inlist`
\* with that address
HeadOfAddress(units, inlist, i) ==
    units[CHOOSE j \in inlist :
            /\ units[j].full_address.v = units[i].full_address.v
            /\ \A k \in inlist :
                  units[k].full_address.v = units[i].full_address.v => j <= k]

\* units[i] after the geocoding loop: its address is looked up when it is not
\* empty and address_units[0] lacks a coordinate, and a result is assigned to
\* every unit of the address.
Geocoded(units, inlist, i, geo) ==
    LET unit == units[i]
        address == unit.full_address.v
        first == HeadOfAddress(units, inlist, i)
    IN  IF address # "" /\ (first.lat = None \/ first.lon = None) /\ geo[address] # None
        THEN [unit EXCEPT !.lat = PyFloat(geo[address].lat),
                          !.lon = PyFloat(geo[address].lon)]
        ELSE unit

\* The addresses that geocode_address is called with, in the order of the calls:
\* the keys of by_address, each at its first unit, that are not empty and whose
\* first unit lacks a coordinate.
RECURSIVE GeocodeCalls(_, _, _)
GeocodeCalls(units, inlist, i) ==
    IF i > Len(units) THEN <<>>
    ELSE (IF /\ i \in inlist
             /\ \A k \in inlist :
                   units[k].full_address.v = units[i].full_address.v => i <= k
             /\ units[i].full_address.v # ""
             /\ (units[i].lat = None \/ units[i].lon = None)
          THEN <<units[i].full_address.v>> ELSE <<>>)
         \o GeocodeCalls(units, inlist, i + 1)

Resolved(unit) == unit.lat # None /\ unit.lon # None

\* haversine_distance(unit.lat, unit.lon, UMN_CAMPUS_LAT, UMN_CAMPUS_LON)
DistOf(unit) ==
    haversine_distance(unit.lat.v, unit.lon.v, UMN_CAMPUS_LAT, UMN_CAMPUS_LON)

\* units[i] after the filter loop: unit.dist_to_campus_km = round(dist, 2)
Measured(unit) ==
    IF Resolved(unit)
    THEN [unit EXCEPT !.dist_to_campus_km = PyFloat(round2(DistOf(unit)))]
    ELSE unit

\* The elements of seq at the positions of `at`, in order.
RECURSIVE Pick(_, _, _)
Pick(seq, at, i) ==
    IF i > Len(seq) THEN <<>>
    ELSE (IF i \in at THEN <<seq[i]>> ELSE <<>>) \o Pick(seq, at, i + 1)

\* geocode_and_filter_units without its filter: every unit is returned.
geocode_and_filter_units_keeps_all(units, existing_ids, geo) ==
    [units |-> [i \in 1..Len(units) |-> Measured(units[i])],
     filtered |-> [i \in 1..Len(units) |-> Measured(units[i])]]

\* geocode_and_filter_units of main.py.  `units` is the list as the call leaves it
\* (the units are updated in place), `filtered` the list returned.
geocode_and_filter_units(units, existing_ids, geo) ==
    LET inlist == KeptByPrefilter(units, existing_ids)
        after == [i \in 1..Len(units) |->
                    IF i \in inlist THEN Measured(Geocoded(units, inlist, i, geo))
                    ELSE units[i]]
        keep == {i \in inlist : Resolved(after[i]) /\ WithinRadius(DistOf(after[i]))}
    IN  [units |-> after, filtered |-> Pick(after, keep, 1)]

\* geocode_and_filter_units of umn_listings.py: no pre-filter, units without an
\* address are not grouped, and a unit without coordinates is kept when its city
\* holds 'minneapolis'.
umn_geocode_and_filter_units(units, geo) ==
    LET inlist == {i \in 1..Len(units) : units[i].full_address.v # ""}
        after == [i \in 1..Len(units) |->
                    IF i \in inlist THEN Measured(Geocoded(units, inlist, i, geo))
                    ELSE Measured(units[i])]
        keep == {i \in 1..Len(units) :
                    IF Resolved(after[i]) THEN WithinRadius(DistOf(after[i]))
                    ELSE after[i].city.v \in MinneapolisCities}
    IN  [units |-> after, filtered |-> Pick(after, keep, 1)]

\* The loop of the merge without the test: the new unit replaces the record.
RECURSIVE AddNewOverwriting(_, _)
AddNewOverwriting(merged, new_units) ==
    IF new_units = <<>> THEN merged
    ELSE AddNewOverwriting(DictSet(merged, Head(new_units).listing_id.v, Head(new_units)),
                           Tail(new_units))

\* The loop of the merge: a new unit is added under its listing_id unless the id
\* is there.
RECURSIVE AddNew(_, _)
AddNew(merged, new_units) ==
    IF new_units = <<>> THEN merged
    ELSE LET unit == Head(new_units)
         IN  AddNew(IF unit.listing_id.v \notin Keys(merged)
                    THEN DictSet(merged, unit.listing_id.v, unit)
                    ELSE merged,
                    Tail(new_units))

\* The fields of UnitListing without a default.
RequiredFields == {"listing_id", "building_name", "full_address"}

\* The declared default of a field that has one.
DefaultOf(f) == IF f = "city" THEN PyStr("") ELSE None

\* UnitListing(**filtered_data): the keys that are fields of the class are kept,
\* a field that the dict lacks takes its default; None stands for the TypeError
\* raised when a field without default is missing.
FromDict(data) ==
    IF ~(RequiredFields \subseteq DOMAIN data) THEN None
    ELSE [f \in Fields |-> IF f \in DOMAIN data THEN data[f] ELSE DefaultOf(f)]

\* merge_and_dedupe_units: every value of the merged dict becomes a UnitListing
\* again; a value for which the constructor raises is left out.
merge_and_dedupe_units(new_units, existing) ==
    LET merged == Values(AddNew(existing, new_units))
    IN  SelectSeq([i \in 1..Len(merged) |-> FromDict(merged[i])], LAMBDA u : u # None)

\* The loop of load_existing_listings of umn_listings.py: the rows as read, every
\* cell a string, a row without listing_id passed over.
RECURSIVE UmnLoadRows(_, _)
UmnLoadRows(rows, existing) ==
    IF rows = <<>> THEN existing
    ELSE UmnLoadRows(Tail(rows),
                     IF Get(Head(rows), "listing_id", "") = "" THEN existing
                     ELSE DictSet(existing, Head(rows)["listing_id"],
                                  [f \in DOMAIN Head(rows) |-> PyStr(Head(rows)[f])]))

\* load_existing_listings of umn_listings.py
umn_load_existing_listings(file) ==
    IF file.exists THEN UmnLoadRows(file.rows, <<>>) ELSE <<>>

\* csv.DictWriter (extrasaction 'raise') writes a dict whose keys are all field
\* names, and raises ValueError for any other.
Writable(data) == DOMAIN data \subseteq Fields

\* writer.writerows(values): the rows written before the first dict that raises.
RECURSIVE WrittenUntilError(_)
WrittenUntilError(values) ==
    IF values = <<>> \/ ~Writable(Head(values)) THEN <<>>
    ELSE <<Head(values)>> \o WrittenUntilError(Tail(values))

\* merge_and_export raises: the ValueError of writerows is not caught.
merge_and_export_raises(new_units, existing) ==
    \E i \in 1..Len(AddNew(existing, new_units)) :
        ~Writable(AddNew(existing, new_units)[i].v)

\* merge_and_export of umn_listings.py: what is at output_path afterwards.  The
\* file is written only `if existing:`; it is opened for writing, the header is
\* written, then the rows up to the first one that raises.
merge_and_export(new_units, existing, file) ==
    LET merged == AddNew(existing, new_units)
    IN  IF merged = <<>> THEN file
        ELSE [exists |-> TRUE, rows |-> RowsOf(WrittenUntilError(Values(merged)))]

-----------------------------------------------------------------------------
(* Runs of main().                                                         *)

\* Runs started in a behaviour.
MaxRuns == 2

\* Pages scraped in one run.
MaxBuildings == 2

\* The URLs of KNOWN_SCRAPED_URLS: buildings of an earlier collection, none of
\* them a page of the model.
KNOWN_SCRAPED_URLS ==
    {<<"https:", "", "www.apartments.com", "lumos-apartments-minneapolis-mn", "ztq9cyw", "">>}

\* load_scraped_urls(filepath): the known URLs and the lines of the file
load_scraped_urls(file) == KNOWN_SCRAPED_URLS \cup file

\* max_consecutive_failures of main()
max_consecutive_failures == 10

\* The number of consecutive failures at which a failure that looks like bot
\* detection ends the session.
BotDetectionFailures == 3

\* auto_restart_scraper is not running.
InitAuto ==
    /\ a_pc = "idle"
    /\ a_args = None
    /\ session_num = 0
    /\ current_location = None
    /\ location_counts = <<>>
    /\ total_listings = 0
    /\ a_last = "none"
    /\ a_reached = FALSE

InitRun ==
    /\ consecutive_failures = 0
    /\ SCRAPED_URLS_FILE = {}
    /\ scraped_urls = {}
    /\ program \in {"main", "umn_listings"}
    /\ pc = "idle"
    /\ runs = 0
    /\ visited = {}
    /\ all_units = <<>>
    /\ filtered_units = <<>>
    /\ PERSISTENT_CSV = Absent
    /\ OUTPUT_CSV = Absent
    /\ OUTPUT_CSV_ALL = Absent
    /\ no_prefilter_csv = Absent

\* The script is started: all_units = [], and TIMESTAMP names two new files.
\* main.py loads the tracking file when it is run with skip_scraped.
StartRun(skip_scraped) ==
    /\ pc \in {"idle", "done"}
    /\ runs < MaxRuns
    /\ program = "umn_listings" => ~skip_scraped
    /\ consecutive_failures' = 0
    /\ scraped_urls' = IF skip_scraped THEN load_scraped_urls(SCRAPED_URLS_FILE) ELSE {}
    /\ pc' = "scraping"
    /\ runs' = runs + 1
    /\ visited' = {}
    /\ all_units' = <<>>
    /\ filtered_units' = <<>>
    /\ OUTPUT_CSV' = Absent
    /\ OUTPUT_CSV_ALL' = Absent
    /\ UNCHANGED <<program, PERSISTENT_CSV, no_prefilter_csv, SCRAPED_URLS_FILE,
                   geoVars, fnVars, autoVars>>

\* The session ends at the limit, without the final writes.
AfterFailureAborts(failures, limit) == IF failures >= limit THEN "done" ELSE "scraping"

\* The loop is left when consecutive_failures has reached the limit.
AfterFailure(failures, limit) == IF failures >= limit THEN "stopped" ELSE "scraping"

\* main.py, one pass of `for idx, url in enumerate(building_urls, 1)` over a URL
\* that is not skipped: units = await scrape_building(page, url); with units,
\* all_units.extend(units) and the URL goes to the tracking file; without, the
\* pass counts as a failure.
ScrapeBuilding(page) ==
    /\ program = "main"
    /\ pc = "scraping"
    /\ Cardinality(visited) < MaxBuildings
    /\ page.source_url \notin visited
    /\ page.source_url \notin scraped_urls
    /\ visited' = visited \cup {page.source_url}
    /\ all_units' = all_units \o scrape_building(page)
    /\ IF scrape_building(page) # <<>>
       THEN /\ consecutive_failures' = 0
            /\ SCRAPED_URLS_FILE' = SCRAPED_URLS_FILE \cup {page.source_url}
            /\ pc' = pc
       ELSE /\ consecutive_failures' = consecutive_failures + 1
            /\ SCRAPED_URLS_FILE' = SCRAPED_URLS_FILE
            /\ pc' = AfterFailure(consecutive_failures + 1, max_consecutive_failures)
    /\ UNCHANGED <<program, runs, filtered_units, PERSISTENT_CSV, OUTPUT_CSV,
                   OUTPUT_CSV_ALL, no_prefilter_csv, scraped_urls, geoVars, fnVars,
                   autoVars>>

\* main.py, from "Save ALL data first" to the end of main(): the unfiltered
\* snapshot, the load of the store, geocoding and filtering, the session
\* snapshot, the merge, the rewrite of the store.
FinishMain(geo) ==
    /\ program = "main"
    /\ pc \in {"scraping", "stopped"}
    /\ LET existing_listings == load_existing_listings(PERSISTENT_CSV)
           existing_ids == Keys(existing_listings)
           done == geocode_and_filter_units(all_units, existing_ids, geo)
           merged_units == merge_and_dedupe_units(done.filtered, existing_listings)
           plain == geocode_and_filter_units(all_units, {}, geo)
       IN  /\ OUTPUT_CSV_ALL' = export_to_csv(all_units)
           /\ all_units' = done.units
           /\ filtered_units' = done.filtered
           /\ OUTPUT_CSV' = export_to_csv(done.filtered)
           /\ PERSISTENT_CSV' = export_combined_csv(merged_units)
           /\ no_prefilter_csv' =
                 export_combined_csv(
                     merge_and_dedupe_units(plain.filtered, existing_listings))
    /\ pc' = "done"
    /\ UNCHANGED <<program, runs, visited, trackVars, geoVars, fnVars, autoVars>>

\* umn_listings.py, one property of the listing page:
\* units = await extract_property_from_modal(...); all_units.extend(units)
ScrapeProperty(modal) ==
    /\ program = "umn_listings"
    /\ pc = "scraping"
    /\ Cardinality(visited) < MaxBuildings
    /\ modal.property_id \notin visited
    /\ visited' = visited \cup {modal.property_id}
    /\ all_units' = all_units \o extract_property_from_modal(modal)
    /\ UNCHANGED <<program, pc, runs, filtered_units, PERSISTENT_CSV, OUTPUT_CSV,
                   OUTPUT_CSV_ALL, no_prefilter_csv, trackVars, geoVars, fnVars,
                   autoVars>>

\* umn_listings.py, from "Geocode and filter" to the end of main().
FinishUmn(geo) ==
    /\ program = "umn_listings"
    /\ pc = "scraping"
    /\ LET done == umn_geocode_and_filter_units(all_units, geo)
           existing == umn_load_existing_listings(PERSISTENT_CSV)
           written == merge_and_export(done.filtered, existing, PERSISTENT_CSV)
       IN  /\ all_units' = done.units
           /\ filtered_units' = done.filtered
           /\ OUTPUT_CSV' = export_to_csv(done.filtered)
           /\ PERSISTENT_CSV' = written
           /\ no_prefilter_csv' = written
    /\ pc' = "done"
    /\ UNCHANGED <<program, runs, visited, OUTPUT_CSV_ALL, trackVars, geoVars, fnVars,
                   autoVars>>

\* The pages a run can go to: building URLs (main.py), property ids
\* (umn_listings.py).
PagesOf(script) ==
    IF script = "main" THEN {page.source_url : page \in BuildingPages}
    ELSE {modal.property_id : modal \in PropertyModals}

\* One pass of the loop over the pages in which nothing is scraped: the page
\* raised, timed out or gave no units.  The exception is caught in the loop; in
\* main.py the pass counts as a failure.
ScrapeFailed(url) ==
    /\ pc = "scraping"
    /\ Cardinality(visited) < MaxBuildings
    /\ url \notin visited
    /\ url \notin scraped_urls
    /\ visited' = visited \cup {url}
    /\ consecutive_failures' =
          IF program = "main" THEN consecutive_failures + 1 ELSE consecutive_failures
    /\ pc' = IF program = "main"
             THEN AfterFailure(consecutive_failures + 1, max_consecutive_failures)
             ELSE pc
    /\ UNCHANGED <<program, runs, all_units, filtered_units, PERSISTENT_CSV,
                   OUTPUT_CSV, OUTPUT_CSV_ALL, no_prefilter_csv, SCRAPED_URLS_FILE,
                   scraped_urls, geoVars, fnVars, autoVars>>

\* main.py, one pass of the loop over a URL of the search results that is no
\* page of the model and raises with 'access denied', 'blocked' or 'captcha' in
\* the text of the exception: at three consecutive failures the loop is left.
ScrapeBlocked ==
    /\ program = "main"
    /\ pc = "scraping"
    /\ consecutive_failures' = consecutive_failures + 1
    /\ pc' = AfterFailure(consecutive_failures + 1, BotDetectionFailures)
    /\ UNCHANGED <<program, runs, visited, all_units, filtered_units, PERSISTENT_CSV,
                   OUTPUT_CSV, OUTPUT_CSV_ALL, no_prefilter_csv, SCRAPED_URLS_FILE,
                   scraped_urls, geoVars, fnVars, autoVars>>

\* umn_listings.py: page.goto(LISTING_PAGE) failed on each of the RETRY_ATTEMPTS
\* attempts: `if not navigation_success: return 0`, after browser.close().
NavigationFailed ==
    /\ program = "umn_listings"
    /\ pc = "scraping"
    /\ visited = {}
    /\ pc' = "done"
    /\ UNCHANGED <<program, runs, visited, all_units, filtered_units, PERSISTENT_CSV,
                   OUTPUT_CSV, OUTPUT_CSV_ALL, no_prefilter_csv, trackVars, geoVars,
                   fnVars, autoVars>>

\* Runs from the command line: skip_scraped is False, no page is blocked.
Next ==
    \/ StartRun(FALSE)
    \/ \E page \in BuildingPages : ScrapeBuilding(page)
    \/ \E url \in PagesOf(program) : ScrapeFailed(url)
    \/ \E geo \in ServiceBehaviours(all_units) : FinishMain(geo)
    \/ \E modal \in PropertyModals : ScrapeProperty(modal)
    \/ NavigationFailed
    \/ \E geo \in ServiceBehaviours(all_units) : FinishUmn(geo)

\* No function is called on its own.
InitFn ==
    /\ f_pc = "idle"
    /\ f_args = None
    /\ f_ret = None

\* Nothing has been scraped, written or asked of the geocoder.
Init == InitRun /\ InitGeo /\ InitFn /\ InitAuto

Spec == Init /\ [][Next]_vars

SpecGeo == Init /\ [][GeoNext]_vars

\* Sessions as auto_restart_scraper starts them, and sessions that meet bot
\* detection: runs with skip_scraped, passes that are blocked.
SessionNext ==
    \/ Next
    \/ StartRun(TRUE)
    \/ ScrapeBlocked

SpecSessions == Init /\ [][SessionNext]_vars

-----------------------------------------------------------------------------
(* Price texts: parse_price_text and the price part of parse_unit_row      *)
(* (main.py), parse_rent (umn_listings.py).  A text is a sequence of       *)
(* characters; the en dash is the one character "en-dash".                 *)

\* The digits in order.
DigitChars == <<"0", "1", "2", "3", "4", "5", "6", "7", "8", "9">>

\* The value of a digit.
DigitValue(c) == CHOOSE n \in 0..9 : DigitChars[n + 1] = c

\* int() of the digits of s, the other characters passed over
RECURSIVE DigitsValue(_, _)
DigitsValue(s, acc) ==
    IF s = <<>> THEN acc
    ELSE DigitsValue(Tail(s),
                     IF IsDigit(Head(s)) THEN acc * 10 + DigitValue(Head(s)) ELSE acc)

\* 10 ^ n
RECURSIVE Pow10(_)
Pow10(n) == IF n = 0 THEN 1 ELSE 10 * Pow10(n - 1)

\* float(n.replace(',', '')) of a matched number: digits, commas, and at most one
\* point followed by at most four digits
ToFloat(n) ==
    LET point == IndexOf(n, ".")
        whole == IF point = 0 THEN n ELSE SubSeq(n, 1, point - 1)
        frac == IF point = 0 THEN <<>> ELSE SubSeq(n, point + 1, Len(n))
    IN  DigitsValue(whole, 0) * Unit + DigitsValue(frac, 0) * Pow10(4 - Len(frac))

\* (?:,\d{3})* from position j: the position after the last group matched
RECURSIVE GroupsEnd(_, _)
GroupsEnd(s, j) ==
    IF /\ j + 3 <= Len(s)
       /\ s[j] = ","
       /\ IsDigit(s[j + 1]) /\ IsDigit(s[j + 2]) /\ IsDigit(s[j + 3])
    THEN GroupsEnd(s, j + 4)
    ELSE j

\* (?:\.\d{2})? from position j
CentsEnd(s, j) ==
    IF j + 2 <= Len(s) /\ s[j] = "." /\ IsDigit(s[j + 1]) /\ IsDigit(s[j + 2])
    THEN j + 3
    ELSE j

\* \d{1,3}(?:,\d{3})*(?:\.\d{2})? matched at the digit at position i: the position
\* after the match
NumberEnd(s, i) == CentsEnd(s, GroupsEnd(s, i + Min(3, DigitRun(s, i))))

\* \$?\s* tried at position i: the position of the digit that follows, 0 when
\* no digit follows
NumberStart(s, i) ==
    LET a == IF i <= Len(s) /\ s[i] = "$" THEN i + 1 ELSE i
        b == a + SpaceRun(s, a)
    IN  IF b <= Len(s) /\ IsDigit(s[b]) THEN b ELSE 0

\* [float(n.replace(',', '')) for n in
\*     re.findall(r'\$?\s*(\d{1,3}(?:,\d{3})*(?:\.\d{2})?)', price_text)], from i on
RECURSIVE FindNumbers(_, _)
FindNumbers(s, i) ==
    IF i > Len(s) THEN <<>>
    ELSE LET b == NumberStart(s, i)
         IN  IF b = 0 THEN FindNumbers(s, i + 1)
             ELSE <<ToFloat(SubSeq(s, b, NumberEnd(s, b) - 1))>>
                      \o FindNumbers(s, NumberEnd(s, b))

\* The parts of a pattern: a literal, \s+, \s*, \d+, an optional literal.
Lit(s) == [k |-> "lit", s |-> s]

Opt(s) == [k |-> "opt", s |-> s]

Spaces1 == [k |-> "s+"]

Spaces0 == [k |-> "s*"]

Digits1 == [k |-> "d+"]

PER_BED_PATTERNS ==
    << <<Lit(<<"p", "e", "r">>), Spaces1, Lit(<<"b", "e", "d">>), Opt(<<"r", "o", "o", "m">>)>>,
       <<Lit(<<"b", "y">>), Spaces1, Lit(<<"t", "h", "e">>), Spaces1, Lit(<<"b", "e", "d">>)>>,
       <<Lit(<<"/">>), Spaces0, Lit(<<"b", "e", "d">>), Opt(<<"r", "o", "o", "m">>)>>,
       <<Lit(<<"i", "n", "d", "i", "v", "i", "d", "u", "a", "l">>), Spaces1, Lit(<<"l", "e", "a", "s", "e">>)>>,
       <<Lit(<<"b", "e", "d", "r", "o", "o", "m">>), Spaces1, Lit(<<"l", "e", "a", "s", "e">>)>> >>

SHARED_BEDROOM_PATTERNS ==
    << <<Lit(<<"s", "h", "a", "r", "e", "d">>), Spaces1, Lit(<<"b", "e", "d", "r", "o", "o", "m">>)>>,
       <<Lit(<<"d", "o", "u", "b", "l", "e">>), Spaces1, Lit(<<"o", "c", "c", "u", "p", "a", "n", "c", "y">>)>>,
       <<Lit(<<"2", "x">>), Spaces1, Lit(<<"o", "c", "c", "u", "p", "a", "n", "c", "y">>)>>,
       <<Lit(<<"r", "o", "o", "m", "m", "a", "t", "e">>), Spaces1, Lit(<<"m", "a", "t", "c", "h", "i", "n", "g">>)>>,
       <<Digits1, Spaces1, Lit(<<"b", "e", "d">>), Opt(<<"s">>), Spaces1,
         Lit(<<"p", "e", "r">>), Spaces1, Lit(<<"r", "o", "o", "m">>)>> >>

\* The literal s stands at position i of text.
LitAt(text, i, s) == i + Len(s) - 1 <= Len(text) /\ SubSeq(text, i, i + Len(s) - 1) = s

\* re.match of the pattern at position i of text
RECURSIVE MatchAt(_, _, _)
MatchAt(text, i, pattern) ==
    IF pattern = <<>> THEN TRUE
    ELSE LET p == Head(pattern)
             rest == Tail(pattern)
         IN  CASE p.k = "lit" -> LitAt(text, i, p.s) /\ MatchAt(text, i + Len(p.s), rest)
               [] p.k = "opt" -> \/ LitAt(text, i, p.s) /\ MatchAt(text, i + Len(p.s), rest)
                                 \/ MatchAt(text, i, rest)
               [] p.k = "s+" -> \E n \in 1..SpaceRun(text, i) : MatchAt(text, i + n, rest)
               [] p.k = "s*" -> \E n \in 0..SpaceRun(text, i) : MatchAt(text, i + n, rest)
               [] p.k = "d+" -> \E n \in 1..DigitRun(text, i) : MatchAt(text, i + n, rest)

\* re.search(pattern, text) finds a match
re_search(pattern, text) == \E i \in 1..(Len(text) + 1) : MatchAt(text, i, pattern)

\* min(numbers), max(numbers)
SeqMin(numbers) ==
    CHOOSE m \in {numbers[i] : i \in 1..Len(numbers)} :
        \A i \in 1..Len(numbers) : m <= numbers[i]

SeqMax(numbers) ==
    CHOOSE m \in {numbers[i] : i \in 1..Len(numbers)} :
        \A i \in 1..Len(numbers) : m >= numbers[i]

\* The three characters of the second separator literal of parse_price_text as
\* the source file spells it: a with circumflex, euro sign, left double quote.
DashLiteral == <<"a-circumflex", "euro", "left-double-quote">>

\* parse_price_text(price_text, full_text)
parse_price_text(price_text, full_text) ==
    LET result == [rent_min |-> None, rent_max |-> None, price_type |-> PyStr("unknown"),
                   is_per_bed |-> None, is_shared_bedroom |-> None]
        combined_text == lower(price_text \o <<" ">> \o full_text)
        per_bed == \E k \in 1..Len(PER_BED_PATTERNS) :
                      re_search(PER_BED_PATTERNS[k], combined_text)
        shared == \E k \in 1..Len(SHARED_BEDROOM_PATTERNS) :
                      re_search(SHARED_BEDROOM_PATTERNS[k], combined_text)
        scanned == [result EXCEPT
                      !.is_per_bed = IF per_bed THEN PyBool(TRUE) ELSE @,
                      !.price_type = IF per_bed THEN PyStr("per_bed") ELSE @,
                      !.is_shared_bedroom = IF shared THEN PyBool(TRUE) ELSE @]
        numbers == FindNumbers(price_text, 1)
        text_lower == lower(price_text)
        found ==
            IF Contains(text_lower, <<"f", "r", "o", "m">>)
            THEN [rent_min |-> numbers[1], rent_max |-> numbers[1], price_type |-> "from_price"]
            ELSE IF /\ Len(numbers) = 2
                    /\ \/ Contains(price_text, <<"-">>)
                       \/ Contains(price_text, DashLiteral)
                       \/ Contains(text_lower, <<"t", "o">>)
            THEN [rent_min |-> numbers[1], rent_max |-> numbers[2], price_type |-> "range"]
            ELSE IF Len(numbers) = 1
            THEN [rent_min |-> numbers[1], rent_max |-> numbers[1], price_type |-> "per_unit"]
            ELSE [rent_min |-> SeqMin(numbers), rent_max |-> SeqMax(numbers),
                  price_type |-> "range"]
    IN  IF price_text = <<>> THEN result
        ELSE IF numbers = <<>> THEN scanned
        ELSE [scanned EXCEPT
                !.rent_min = PyFloat(found.rent_min),
                !.rent_max = PyFloat(found.rent_max),
                !.price_type = IF @ = PyStr("unknown") THEN PyStr(found.price_type) ELSE @,
                !.is_per_bed = IF @ = None THEN PyBool(FALSE) ELSE @,
                !.is_shared_bedroom = IF @ = None THEN PyBool(FALSE) ELSE @]

\* Length of the longest run of digits and commas of s from position i ([\d,]+).
RECURSIVE AmountRun(_, _)
AmountRun(s, i) ==
    IF i <= Len(s) /\ (IsDigit(s[i]) \/ s[i] = ",") THEN 1 + AmountRun(s, i + 1) ELSE 0

\* \$[\d,]+(?:\s*-\s*\$[\d,]+)? matched at position i: the position after the
\* match, 0 when there is no match at i
RentMatchEnd(s, i) ==
    IF ~(i <= Len(s) /\ s[i] = "$" /\ AmountRun(s, i + 1) >= 1) THEN 0
    ELSE LET a == i + 1 + AmountRun(s, i + 1)
             dash == a + SpaceRun(s, a)
             b == dash + 1 + SpaceRun(s, dash + 1)
         IN  IF /\ dash <= Len(s) /\ s[dash] = "-"
                /\ b <= Len(s) /\ s[b] = "$"
                /\ AmountRun(s, b + 1) >= 1
             THEN b + 1 + AmountRun(s, b + 1)
             ELSE a

\* rent_match.group(0) of re.search(r'\$[\d,]+(?:\s*-\s*\$[\d,]+)?', row_text),
\* "" without a match
rent_match(row_text) ==
    IF \E i \in 1..Len(row_text) : RentMatchEnd(row_text, i) # 0
    THEN LET i == CHOOSE i \in 1..Len(row_text) :
                     /\ RentMatchEnd(row_text, i) # 0
                     /\ \A j \in 1..(i - 1) : RentMatchEnd(row_text, j) = 0
         IN  SubSeq(row_text, i, RentMatchEnd(row_text, i) - 1)
    ELSE <<>>

\* The price fields of the UnitListing that parse_unit_row builds from the text
\* of a row: None when the row shows no rent; is_shared_bedroom is not among the
\* arguments of UnitListing(...) and keeps its default.
parse_unit_row_price(row_text, full_page_text) ==
    LET rent_raw == rent_match(row_text)
        price_info == parse_price_text(rent_raw, full_page_text)
    IN  IF rent_raw = <<>> \/ Contains(lower(rent_raw), <<"c", "a", "l", "l">>) THEN None
        ELSE [rent_raw |-> rent_raw,
              rent_min |-> price_info.rent_min,
              rent_max |-> price_info.rent_max,
              price_type |-> price_info.price_type,
              is_per_bed |-> price_info.is_per_bed,
              is_shared_bedroom |-> None]

\* s.replace(c, '')
RECURSIVE Without(_, _)
Without(s, c) ==
    IF s = <<>> THEN <<>>
    ELSE (IF Head(s) = c THEN <<>> ELSE <<Head(s)>>) \o Without(Tail(s), c)

\* \d+\.?\d* matched at the digit at position i: the position after the match
DecimalEnd(s, i) ==
    LET a == i + DigitRun(s, i)
    IN  IF a <= Len(s) /\ s[a] = "." THEN a + 1 + DigitRun(s, a + 1) ELSE a

\* [float(n) for n in re.findall(r'\d+\.?\d*', rent_text)], from i on
RECURSIVE FindDecimals(_, _)
FindDecimals(s, i) ==
    IF i > Len(s) THEN <<>>
    ELSE IF ~IsDigit(s[i]) THEN FindDecimals(s, i + 1)
    ELSE <<ToFloat(SubSeq(s, i, DecimalEnd(s, i) - 1))>> \o FindDecimals(s, DecimalEnd(s, i))

\* parse_rent(rent_text) of umn_listings.py
parse_rent(rent_text) ==
    LET text == strip(Without(Without(rent_text, ","), "$"))
        price_type == IF Contains(lower(text), <<"b", "e", "d">>) THEN "per_bed" ELSE "total"
        numbers == FindDecimals(text, 1)
    IN  IF rent_text = <<>>
        THEN [rent_min |-> None, rent_max |-> None, price_type |-> PyStr("unknown")]
        ELSE IF numbers = <<>>
        THEN [rent_min |-> None, rent_max |-> None, price_type |-> PyStr(price_type)]
        ELSE IF Len(numbers) = 1
        THEN [rent_min |-> PyFloat(numbers[1]), rent_max |-> PyFloat(numbers[1]),
              price_type |-> PyStr(price_type)]
        ELSE [rent_min |-> PyFloat(SeqMin(numbers)), rent_max |-> PyFloat(SeqMax(numbers)),
              price_type |-> PyStr(price_type)]

\* Price texts: what stands before the amounts, and the amounts.
PricePrefixes == {<<>>, <<"F", "r", "o", "m", " ">>}

PriceBodies ==
    {<<>>,
     <<"$", "1", ",", "2", "0", "0">>,
     <<"$", "9", "0", "0", " ", "-", " ", "$", "1", ",", "3", "0", "0">>,
     <<"$", "1", ",", "3", "0", "0", " ", "-", " ", "$", "9", "0", "0">>,
     <<"$", "8", "0", "0">>,
     <<"$", "6", "5", "0", "/", "b", "e", "d">>,
     <<"$", "1", "2", "0", "0">>,
     <<"$", "9", "0", "0", " ", "t", "o", " ", "$", "1", ",", "3", "0", "0">>,
     <<"$", "1", ",", "3", "0", "0", " ", "en-dash", " ", "$", "9", "0", "0">>,
     <<"$", "7", "0", "0", " ", "$", "8", "0", "0", " ", "$", "9", "0", "0">>,
     <<"$", "1", ",", "2", "0", "0", ".", "5", "0">>,
     <<"C", "a", "l", "l">>,
     <<"$", ",">>}

\* The text of the page around the price.
PageTexts ==
    {<<>>,
     <<"P", "e", "r", " ", " ", "B", "e", "d", "r", "o", "o", "m">>,
     <<"s", "h", "a", "r", "e", "d", " ", "b", "e", "d", "r", "o", "o", "m">>,
     <<"2", " ", "b", "e", "d", "s", " ", "p", "e", "r", " ", "r", "o", "o", "m">>}

\* One call of a price parser: the price text and the text of the page.
InitPrice ==
    /\ InitRun
    /\ InitGeo
    /\ InitAuto
    /\ f_pc = "called"
    /\ f_args \in [price_text : {p \o b : p \in PricePrefixes, b \in PriceBodies},
                   full_text : PageTexts]
    /\ f_ret = None

\* main.py: parse_price_text(price_text, full_text)
ParsePriceText ==
    /\ program = "main"
    /\ f_pc = "called"
    /\ f_pc' = "returned"
    /\ f_ret' = [fn |-> "parse_price_text",
                 value |-> parse_price_text(f_args.price_text, f_args.full_text)]
    /\ UNCHANGED <<f_args, geoVars, runVars, autoVars>>

\* main.py: parse_unit_row on a row whose text is the price text
ParseUnitRow ==
    /\ program = "main"
    /\ f_pc = "called"
    /\ f_pc' = "returned"
    /\ f_ret' = [fn |-> "parse_unit_row",
                 value |-> parse_unit_row_price(f_args.price_text, f_args.full_text)]
    /\ UNCHANGED <<f_args, geoVars, runVars, autoVars>>

\* umn_listings.py: parse_rent(rent_text)
ParseRent ==
    /\ program = "umn_listings"
    /\ f_pc = "called"
    /\ f_pc' = "returned"
    /\ f_ret' = [fn |-> "parse_rent", value |-> parse_rent(f_args.price_text)]
    /\ UNCHANGED <<f_args, geoVars, runVars, autoVars>>

PriceNext == ParsePriceText \/ ParseUnitRow \/ ParseRent

SpecPrice == InitPrice /\ [][PriceNext]_vars

-----------------------------------------------------------------------------
(* sample_units on its own: the list of units of one building.             *)

\* Longest list of units given to sample_units.
MaxUnits == 4

\* A unit of the building of OakPage as parse_unit_row builds it.
SampleUnit(beds, sqft, rent_min) ==
    UnitListing(ListingId(OakPage.source_url, beds), OakPage.building_name,
                OakPage.full_address, OakPage.city, None, None,
                beds, sqft, rent_min, PyBool(FALSE))

\* The units of the lists: with a rent the bedroom counts 1.0, 2.0 and 3.0 at
\* every size and one unit of unknown bedroom count; without a rent a 1-bed and
\* a 3-bed unit of the largest size.
SampledUnits ==
    {SampleUnit(beds, sqft, PyFloat(800 * Unit)) :
        beds \in {PyFloat(1 * Unit), PyFloat(2 * Unit), PyFloat(3 * Unit)},
        sqft \in {None, PyInt(700), PyInt(900)}}
    \cup {SampleUnit(None, PyInt(700), PyFloat(800 * Unit))}
    \cup {SampleUnit(beds, PyInt(900), None) :
        beds \in {PyFloat(1 * Unit), PyFloat(3 * Unit)}}

\* One call of sample_units(units).
InitSample ==
    /\ InitRun
    /\ program = "main"
    /\ InitGeo
    /\ InitAuto
    /\ f_pc = "called"
    /\ f_args \in UNION {[1..n -> SampledUnits] : n \in 0..MaxUnits}
    /\ f_ret = None

SampleUnits ==
    /\ f_pc = "called"
    /\ f_pc' = "returned"
    /\ f_ret' = sample_units(f_args)
    /\ UNCHANGED <<f_args, geoVars, runVars, autoVars>>

SpecSample == InitSample /\ [][SampleUnits]_vars

-----------------------------------------------------------------------------
(* load_existing_listings of main.py on its own: a store of any rows.      *)

\* Most rows of a store given to load_existing_listings.
MaxRows == 3

\* The cell of dist_to_campus_km for a record at the point: round(dist, 2) as
\* the csv writer prints it.
DistanceCell(point) ==
    FloatStr(round2(haversine_distance(point.lat, point.lon,
                                       UMN_CAMPUS_LAT, UMN_CAMPUS_LON)))

\* A row of the store: the row of a unit of OakPage with the cells of listing_id
\* and dist_to_campus_km as given.
StoredRow(listing_id, dist_to_campus_km) ==
    [RowsOf(<<SampleUnit(PyFloat(1 * Unit), PyInt(700), PyFloat(800 * Unit))>>)[1]
        EXCEPT !["listing_id"] = listing_id,
               !["dist_to_campus_km"] = dist_to_campus_km]

\* The rows of the stores: without id and with two ids; the distance empty,
\* within the radius, at the radius as rounded, beyond the radius.
StoredRows ==
    {StoredRow(listing_id, dist) :
        listing_id \in {"", "oak-1.0bed", "pine-0bed"},
        dist \in {"", DistanceCell(NearPoint), DistanceCell(EdgePoint),
                  DistanceCell(FarPoint)}}

\* One call of load_existing_listings(csv_path): no file, or a file of rows.
InitLoad ==
    /\ InitRun
    /\ program = "main"
    /\ InitGeo
    /\ InitAuto
    /\ f_pc = "called"
    /\ f_args \in {Absent}
          \cup {[exists |-> TRUE, rows |-> rows] :
                   rows \in UNION {[1..n -> StoredRows] : n \in 0..MaxRows}}
    /\ f_ret = None

LoadExistingListings ==
    /\ f_pc = "called"
    /\ f_pc' = "returned"
    /\ f_ret' = load_existing_listings(f_args)
    /\ UNCHANGED <<f_args, geoVars, runVars, autoVars>>

SpecLoad == InitLoad /\ [][LoadExistingListings]_vars

-----------------------------------------------------------------------------
(* Writing records and reading them back: export_combined_csv, then        *)
(* load_existing_listings, in main.py and in umn_listings.py.              *)

\* Most records written in one round trip.
MaxRecords == 2

\* A record as a run leaves it in filtered_units: a unit of OakPage geocoded at
\* NearPoint, with its distance.
KeptUnit(beds, sqft, is_per_bed) ==
    Measured([SampleUnit(beds, sqft, PyFloat(800 * Unit))
                 EXCEPT !.lat = PyFloat(NearPoint.lat),
                        !.lon = PyFloat(NearPoint.lon),
                        !.is_per_bed = is_per_bed])

\* The records written: two ids, sqft known and unknown, is_per_bed True, False
\* and None.
KeptUnits ==
    {KeptUnit(beds, sqft, is_per_bed) :
        beds \in {PyFloat(1 * Unit), PyFloat(2 * Unit)},
        sqft \in {None, PyInt(700)},
        is_per_bed \in {PyBool(TRUE), PyBool(FALSE), None}}

\* One round trip of a list of records, in either script.
InitRound ==
    /\ InitRun
    /\ InitGeo
    /\ InitAuto
    /\ f_pc = "called"
    /\ f_args \in UNION {[1..n -> KeptUnits] : n \in 0..MaxRecords}
    /\ f_ret = None

\* main.py: export_combined_csv(units, path); load_existing_listings(path)
RoundTripMain ==
    /\ program = "main"
    /\ f_pc = "called"
    /\ f_pc' = "returned"
    /\ f_ret' = load_existing_listings(export_combined_csv(f_args))
    /\ UNCHANGED <<f_args, geoVars, runVars, autoVars>>

\* umn_listings.py: export_to_csv(units, path); load_existing_listings(path)
RoundTripUmn ==
    /\ program = "umn_listings"
    /\ f_pc = "called"
    /\ f_pc' = "returned"
    /\ f_ret' = umn_load_existing_listings(export_to_csv(f_args))
    /\ UNCHANGED <<f_args, geoVars, runVars, autoVars>>

RoundNext == RoundTripMain \/ RoundTripUmn

SpecRound == InitRound /\ [][RoundNext]_vars

-----------------------------------------------------------------------------
(* Schema drift: a store written under another header goes through load,   *)
(* merge and rewrite.                                                      *)

\* The headers of the stores: that of UnitListing, one with a column that is no
\* field, and two that lack a field with a default.
DriftHeaders ==
    {Fields, Fields \cup {"legacy_field"}, Fields \ {"sqft"}, Fields \ {"city"}}

\* The row of the store under the header: the cells of its columns.
DriftRow(row, header) ==
    [c \in header |-> IF c \in Fields THEN row[c] ELSE "x"]

\* One session's end on a store of MaxRecords rows at most: the store, and the
\* units that the filter kept.
InitDrift ==
    /\ InitRun
    /\ InitGeo
    /\ InitAuto
    /\ f_pc = "called"
    /\ \E header \in DriftHeaders :
       \E rows \in UNION {[1..n -> {StoredRow(id, DistanceCell(NearPoint)) :
                                       id \in {"oak-1.0bed", "pine-0bed"}}] :
                             n \in 0..MaxRecords} :
       \E new_units \in {<<>>, <<KeptUnit(PyFloat(2 * Unit), PyInt(700), PyBool(FALSE))>>} :
          f_args = [file |-> [exists |-> TRUE,
                              rows |-> [i \in 1..Len(rows) |-> DriftRow(rows[i], header)]],
                    new_units |-> new_units]
    /\ f_ret = None

\* main.py 1467-1476 without the geocoding: load, merge, rewrite.
DriftMain ==
    /\ program = "main"
    /\ f_pc = "called"
    /\ f_pc' = "returned"
    /\ f_ret' = [raised |-> FALSE,
                 file |-> export_combined_csv(
                              merge_and_dedupe_units(f_args.new_units,
                                  load_existing_listings(f_args.file)))]
    /\ UNCHANGED <<f_args, geoVars, runVars, autoVars>>

\* umn_listings.py 1410-1411: load, merge_and_export.
DriftUmn ==
    /\ program = "umn_listings"
    /\ f_pc = "called"
    /\ f_pc' = "returned"
    /\ LET existing == umn_load_existing_listings(f_args.file)
       IN  f_ret' = [raised |-> merge_and_export_raises(f_args.new_units, existing),
                     file |-> merge_and_export(f_args.new_units, existing, f_args.file)]
    /\ UNCHANGED <<f_args, geoVars, runVars, autoVars>>

DriftNext == DriftMain \/ DriftUmn

SpecDrift == InitDrift /\ [][DriftNext]_vars

-----------------------------------------------------------------------------
(* auto_restart_scraper of main.py: one session after another.  A session  *)
(* is one call of main(); here it is one step, by what it returns and by   *)
(* how many records it leaves in the accumulated store.                    *)

\* SEARCH_LOCATIONS: three of the searches of generate_search_urls()
SEARCH_LOCATIONS ==
    <<"minneapolis-mn", "under-2000-minneapolis-mn", "over-2000-minneapolis-mn">>

\* Largest max_sessions of a call.
MaxSessions == 4

\* Most records in the accumulated store, and largest target_listings.
MaxListings == 3

\* counts.get(loc, 0)
counts_get(counts, loc) == IF loc \in Keys(counts) THEN Lookup(counts, loc) ELSE 0

\* The orders of the locations: what random.shuffle can make of any tiers.
Orders(locations) ==
    {order \in [1..Len(locations) -> {locations[i] : i \in 1..Len(locations)}] :
        \A i, j \in 1..Len(locations) : i # j => order[i] # order[j]}

\* get_balanced_location_order with the tiers in no order.
get_balanced_location_order_unsorted(locations, counts) == Orders(locations)

\* get_balanced_location_order(locations, counts): the lists it can return.  The
\* tiers come by rising count; inside a tier the order is that of the shuffle.
get_balanced_location_order(locations, counts) ==
    {order \in Orders(locations) :
        \A i, j \in 1..Len(order) :
            i < j => counts_get(counts, order[i]) <= counts_get(counts, order[j])}

\* One call of auto_restart_scraper(max_sessions, target_listings): the counter
\* file is absent, the store holds some records of earlier runs.
InitRestart ==
    /\ InitRun
    /\ program = "main"
    /\ InitGeo
    /\ InitFn
    /\ a_pc = "loop"
    /\ a_args \in [max_sessions : 0..MaxSessions, target_listings : 1..MaxListings]
    /\ session_num = 0
    /\ current_location = None
    /\ location_counts = <<>>
    /\ total_listings \in 0..MaxListings
    /\ a_last = "none"
    /\ a_reached = FALSE

\* `while session_num < max_sessions:` is true: session_num += 1, the location
\* is balanced_locations[0], main() is called.
BeginSession(balanced_locations) ==
    /\ a_pc = "loop"
    /\ session_num < a_args.max_sessions
    /\ session_num' = session_num + 1
    /\ current_location' = PyStr(balanced_locations[1])
    /\ a_pc' = "session"
    /\ UNCHANGED <<a_args, location_counts, total_listings, a_last, a_reached,
                   geoVars, runVars, fnVars>>

\* main() returns, with `added` records more in the store: the count of the
\* location goes up, and the loop is left when the store has reached the target.
SessionReturns(added) ==
    /\ a_pc = "session"
    /\ total_listings + added <= MaxListings
    /\ total_listings' = total_listings + added
    /\ location_counts' =
          DictSet(location_counts, current_location.v,
                  counts_get(location_counts, current_location.v) + 1)
    /\ a_last' = "returned"
    /\ a_reached' = (a_reached \/ total_listings' >= a_args.target_listings)
    /\ a_pc' = IF total_listings' >= a_args.target_listings THEN "done" ELSE "loop"
    /\ UNCHANGED <<a_args, session_num, current_location, geoVars, runVars, fnVars>>

\* main() raises: `except Exception` logs and sleeps, and the loop goes on.  The
\* store is as it was, main() rewrites it in its last step.
SessionRaises ==
    /\ a_pc = "session"
    /\ a_last' = "raised"
    /\ a_reached' = (a_reached \/ total_listings >= a_args.target_listings)
    /\ a_pc' = "loop"
    /\ UNCHANGED <<a_args, session_num, current_location, location_counts,
                   total_listings, geoVars, runVars, fnVars>>

\* KeyboardInterrupt in a session: break.
SessionInterrupted ==
    /\ a_pc = "session"
    /\ a_pc' = "done"
    /\ a_last' = "interrupted"
    /\ UNCHANGED <<a_args, session_num, current_location, location_counts,
                   total_listings, a_reached, geoVars, runVars, fnVars>>

\* `while session_num < max_sessions:` is false.
ExitLoop ==
    /\ a_pc = "loop"
    /\ session_num >= a_args.max_sessions
    /\ a_pc' = "done"
    /\ UNCHANGED <<a_args, session_num, current_location, location_counts,
                   total_listings, a_last, a_reached, geoVars, runVars, fnVars>>

AutoNext ==
    \/ \E order \in get_balanced_location_order(SEARCH_LOCATIONS, location_counts) :
          BeginSession(order)
    \/ \E added \in 0..MaxListings : SessionReturns(added)
    \/ SessionRaises
    \/ SessionInterrupted
    \/ ExitLoop

SpecAuto == InitRestart /\ [][AutoNext]_vars

-----------------------------------------------------------------------------
(* Claims about geocode_address.                                           *)

\* C6: the queries of a call are, in this order and each at most once (a retry
\* aside), the distinct non-empty rewrites of the address: original, leading range
\* collapsed, all ranges collapsed, text after the first comma, parentheticals
\* stripped, street plus zip.  The call stops at the first variant with a usable
\* result: a result is the response of the last request, nothing is sent after it,
\* and it is what the call returns.  For "3413-3433 53rd Ave, Minneapolis, MN",
\* when the literal string fails and the second query succeeds, the second query is
\* "3413 53rd Ave, Minneapolis, MN" and its result is returned.
C6_VariantOrder ==
    /\ Len(Queries) <= Len(QueryOrder(g_address))
    /\ Queries = SubSeq(QueryOrder(g_address), 1, Len(Queries))
    /\ g_last.kind = "ok" =>
          /\ g_pc = "done"
          /\ g_result = [lat |-> g_last.pt.lat, lon |-> g_last.pt.lon]
          /\ g_sent[Len(g_sent)] = g_variant
    /\ (g_pc = "done" /\ g_last.kind # "ok") =>
          /\ g_result = None
          /\ Queries = QueryOrder(g_address)
    /\ (g_address = ExampleAddress /\ Len(Queries) = 2 /\ g_last.kind = "ok") =>
          /\ Queries[2] = CollapsedExample
          /\ g_result = [lat |-> g_last.pt.lat, lon |-> g_last.pt.lon]

\* C6 witness: all six rewrites of "1-3 A (B) 5-7, MN 55414" were queried, one
\* after the other, and the sixth gave the result.
C6_Witness ==
    /\ g_address = FullAddress
    /\ g_pc = "done"
    /\ Len(Queries) = 6
    /\ g_result = [lat |-> NearPoint.lat, lon |-> NearPoint.lon]

\* C7: for each variant, a first response 5xx is followed by exactly one more
\* request for that variant, and a first response that is a non-5xx HTTP failure or
\* an empty result is followed by none: the loop is at the next variant.
C7_RetryPolicy ==
    /\ (g_first = "http5xx" /\ g_pc = "request") =>
          (g_attempt = 1 /\ CountOf(g_variant, g_sent) = 1)
    /\ (g_first = "http5xx" /\ g_pc # "request") =>
          CountOf(g_variant, g_sent) = 2
    /\ g_first \in {"http4xx", "empty"} =>
          (g_pc # "request" /\ CountOf(g_variant, g_sent) = 1)

\* C7 witness: a variant answered 5xx twice has had its two requests, and the loop
\* has moved on.
C7_Witness ==
    /\ g_first = "http5xx"
    /\ g_last.kind = "http5xx"
    /\ g_pc = "variant"
    /\ CountOf(g_variant, g_sent) = 2

\* C8: between any two consecutive requests to the geocoding service (retries of
\* one variant, successive variants, successive addresses) at least
\* GEOCODE_DELAY_SECONDS elapse.
C8_MinimumDelay == g_gap >= GEOCODE_DELAY_SECONDS

\* C9: whatever the service does, a call sends at most two requests per distinct
\* variant, every step of the call reduces the work left (so the call ends), and
\* the call returns the lat/lon of a non-empty response or None: None when every
\* variant is exhausted, never a default coordinate.
C9_BoundedAndTotal ==
    /\ [](/\ \A i \in 1..Len(g_sent) : CountOf(g_sent[i], g_sent) <= 2
          /\ Len(g_sent) <= 2 * Len(QueryOrder(g_address))
          /\ GeoMeasure >= 0
          /\ g_pc = "done" =>
                \/ g_result = None /\ g_last.kind # "ok"
                \/ /\ g_last.kind = "ok"
                   /\ g_result = [lat |-> g_last.pt.lat, lon |-> g_last.pt.lon])
    /\ [][(g_pc \in {"variant", "request"}) => (GeoMeasure' < GeoMeasure)]_vars

\* C9 witness: every variant of "1-3 A (B) 5-7, MN 55414" was tried twice, the
\* service failing each time, and the call returned None.
C9_Witness ==
    /\ g_address = FullAddress
    /\ g_pc = "done"
    /\ Len(g_sent) = 12
    /\ g_result = None

-----------------------------------------------------------------------------
(* Claims about the merge, the store and the filter.                       *)

\* The listing_ids of a list of units.
IdsOfUnits(units) == {units[i].listing_id.v : i \in 1..Len(units)}

\* The rows of a file; none when the file is absent.
RowsIn(file) == IF file.exists THEN file.rows ELSE <<>>

\* The row a record makes in a file.
RowOfRecord(record) == [f \in Fields |-> CellText(record[f])]

\* A list of units with distinct ids, as the dict keyed by listing_id.
AsDict(units) == [i \in 1..Len(units) |-> [k |-> units[i].listing_id.v, v |-> units[i]]]

\* `rows` is a right merge of `batch` into `persisted`: the ids are those of the
\* two, each id has one row, and an id of `persisted` has the values of its
\* persisted record.
MergedRight(rows, batch, persisted) ==
    LET wanted == Keys(persisted) \cup IdsOfUnits(batch)
    IN  /\ \A id \in wanted :
              Cardinality({i \in 1..Len(rows) : rows[i]["listing_id"] = id}) = 1
        /\ \A i \in 1..Len(rows) : rows[i]["listing_id"] \in wanted
        /\ \A id \in Keys(persisted) :
              \E i \in 1..Len(rows) : rows[i] = RowOfRecord(Lookup(persisted, id))

\* C1: the merge of a batch into the persisted map (merge_and_dedupe_units of
\* main.py, merge_and_export of umn_listings.py) holds every listing_id of the
\* batch or of the map exactly once, and for an id of the map it carries the field
\* values of the persisted record, not those of the new one.  Checked for the batch
\* as scraped and the batch as filtered, against the store as the program left it.
C1_MergeKeepsPersisted ==
    \A batch \in {all_units, filtered_units} :
        IF program = "main"
        THEN LET persisted == load_existing_listings(PERSISTENT_CSV)
             IN  MergedRight(RowsOf(merge_and_dedupe_units(batch, persisted)),
                             batch, persisted)
        ELSE LET persisted == umn_load_existing_listings(PERSISTENT_CSV)
                 written == merge_and_export(batch, persisted, Absent)
             IN  IF written.exists THEN MergedRight(written.rows, batch, persisted)
                 ELSE batch = <<>> /\ persisted = <<>>

\* C1 witness: a second run of umn_listings.py is over whose batch held a unit
\* under a stored id at another rent, and the store holds three records.
C1_Witness ==
    /\ program = "umn_listings"
    /\ pc = "done"
    /\ runs = 2
    /\ Len(RowsIn(PERSISTENT_CSV)) = 3
    /\ \E i \in 1..Len(filtered_units), j \in 1..Len(RowsIn(PERSISTENT_CSV)) :
          /\ PERSISTENT_CSV.rows[j]["listing_id"] = filtered_units[i].listing_id.v
          /\ PERSISTENT_CSV.rows[j]["rent_min"] # CellText(filtered_units[i].rent_min)

\* C2: merging is idempotent: merging the batch B into (S merged with B) gives
\* (S merged with B) again, in memory and through the file, the same ids with the
\* same field values.
C2_MergeIdempotent ==
    \A batch \in {all_units, filtered_units} :
        IF program = "main"
        THEN LET once == merge_and_dedupe_units(batch,
                                                load_existing_listings(PERSISTENT_CSV))
                 file == export_combined_csv(once)
             IN  /\ merge_and_dedupe_units(batch, AsDict(once)) = once
                 /\ export_combined_csv(
                        merge_and_dedupe_units(batch, load_existing_listings(file))) = file
        ELSE LET file == merge_and_export(batch,
                                          umn_load_existing_listings(PERSISTENT_CSV),
                                          PERSISTENT_CSV)
             IN  merge_and_export(batch, umn_load_existing_listings(file), file) = file

\* C2 witness: a second run of main.py has merged a batch into a store that held
\* records already.
C2_Witness ==
    /\ program = "main"
    /\ pc = "done"
    /\ runs = 2
    /\ filtered_units # <<>>
    /\ Len(RowsIn(PERSISTENT_CSV)) > Len(filtered_units)

\* C3: first seen wins across runs: a record written to the accumulated store
\* stays in it with every field value as it was written, whatever later runs
\* scrape under its listing_id.
C3_FirstSeenWins ==
    [][\A i \in 1..Len(RowsIn(PERSISTENT_CSV)) :
          \E j \in 1..Len(RowsIn(PERSISTENT_CSV')) :
              PERSISTENT_CSV'.rows[j] = PERSISTENT_CSV.rows[i]]_vars

\* C3 witness: a second run of main.py scraped a stored listing_id at another rent
\* and has rewritten the store.
C3_Witness ==
    /\ program = "main"
    /\ pc = "done"
    /\ runs = 2
    /\ \E i \in 1..Len(all_units), j \in 1..Len(RowsIn(PERSISTENT_CSV)) :
          /\ PERSISTENT_CSV.rows[j]["listing_id"] = all_units[i].listing_id.v
          /\ PERSISTENT_CSV.rows[j]["rent_min"] # CellText(all_units[i].rent_min)

\* No two rows of the file share a listing_id, and none has an empty one.
UniqueIds(file) ==
    \A i, j \in 1..Len(RowsIn(file)) :
        /\ file.rows[i]["listing_id"] # ""
        /\ i # j => file.rows[i]["listing_id"] # file.rows[j]["listing_id"]

\* C4: in every dataset a run writes (the session snapshot, the accumulated store)
\* every record has a non-empty listing_id and no two records share one; and the
\* units sampled from one building have pairwise distinct listing_ids.
C4_UniqueIds ==
    /\ UniqueIds(OUTPUT_CSV)
    /\ UniqueIds(PERSISTENT_CSV)
    /\ \A i, j \in 1..Len(all_units) :
          (i # j /\ all_units[i].building_name = all_units[j].building_name)
              => all_units[i].listing_id # all_units[j].listing_id

\* The records of a file, without their order.
RowSet(file) == {RowsIn(file)[i] : i \in 1..Len(RowsIn(file))}

\* C5: the id pre-filter is only an optimisation: after a run of main.py the store
\* is the one that geocode_and_filter_units without existing ids, followed by the
\* same merge, would have given under the same behaviour of the service.
C5_PrefilterIsOptimisation ==
    (program = "main" /\ pc = "done") =>
        /\ no_prefilter_csv.exists
        /\ RowSet(no_prefilter_csv) = RowSet(PERSISTENT_CSV)

\* A unit lies within the radius of the campus, by the distance in metres.
InRadius(unit) ==
    /\ Resolved(unit)
    /\ HaversineMetres(unit.lat.v, unit.lon.v, UMN_CAMPUS_LAT, UMN_CAMPUS_LON)
           <= SEARCH_RADIUS_KM * 1000

At(unit, point) == unit.lat = PyFloat(point.lat) /\ unit.lon = PyFloat(point.lon)

\* C10, as amended: in main.py a unit that the id pre-filter leaves in the list is
\* in the filtered output if and only if it has resolved coordinates and its
\* haversine distance from (44.9731, -93.2359) is at most SEARCH_RADIUS_KM; a unit
\* without coordinates is never in the output; with the radius at 10 a unit at
\* (44.98, -93.23) is kept and a unit at (44.87, -93.28) is not.
C10_DistanceFilter ==
    [][(program = "main" /\ pc = "scraping" /\ pc' = "done") =>
          LET existing_ids == Keys(load_existing_listings(PERSISTENT_CSV))
          IN  /\ \A i \in 1..Len(all_units') :
                    all_units[i].listing_id.v \notin existing_ids =>
                        /\ In(all_units'[i], filtered_units') <=> InRadius(all_units'[i])
                        /\ At(all_units'[i], NearPoint) => In(all_units'[i], filtered_units')
                        /\ At(all_units'[i], FarPoint) => ~In(all_units'[i], filtered_units')
              /\ \A i \in 1..Len(filtered_units') :
                    /\ In(filtered_units'[i], all_units')
                    /\ Resolved(filtered_units'[i])]_vars

\* C10 witness: a run of main.py geocoded one address to (44.98, -93.23) and
\* another to (44.87, -93.28); the units of the first are in the output, those of
\* the second are not.
C10_Witness ==
    /\ program = "main"
    /\ pc = "done"
    /\ \E i, j \in 1..Len(all_units) :
          /\ At(all_units[i], NearPoint) /\ In(all_units[i], filtered_units)
          /\ At(all_units[j], FarPoint) /\ ~In(all_units[j], filtered_units)

\* C10, as stated: after geocode_and_filter_units of main.py a unit of the list is
\* in the filtered output if and only if it has resolved coordinates within the
\* radius.
C10_AsStated ==
    (program = "main" /\ pc = "done") =>
        \A i \in 1..Len(all_units) :
            In(all_units[i], filtered_units) <=> InRadius(all_units[i])

-----------------------------------------------------------------------------
(* Claims about the alternate filter (umn_listings.py).                    *)

\* The city texts of the modals that contain "minneapolis" when case is ignored.
AcceptedCity(city) == city = "Minneapolis"

\* C11: at the end of geocode_and_filter_units of umn_listings.py a unit with
\* coordinates is in the filtered list if and only if its distance is at most
\* SEARCH_RADIUS_KM, and a unit without coordinates is in the list if and only if
\* its city contains "minneapolis", case ignored; a unit without coordinates whose
\* city is empty or another city is dropped.
C11_AlternateFilter ==
    [][(program = "umn_listings" /\ pc = "scraping" /\ pc' = "done") =>
          /\ \A i \in 1..Len(all_units') :
                LET unit == all_units'[i]
                IN  In(unit, filtered_units') <=>
                        IF Resolved(unit) THEN InRadius(unit)
                        ELSE AcceptedCity(unit.city.v)
          /\ \A i \in 1..Len(filtered_units') : In(filtered_units'[i], all_units')]_vars

\* C11 witness: a run of umn_listings.py ended with a unit without coordinates
\* kept for its city "Minneapolis", a unit without coordinates and without city
\* or of "St. Paul" dropped.
C11_Witness ==
    /\ program = "umn_listings"
    /\ pc = "done"
    /\ \E i, j \in 1..Len(all_units) :
          /\ ~Resolved(all_units[i]) /\ all_units[i].city.v = "Minneapolis"
          /\ In(all_units[i], filtered_units)
          /\ ~Resolved(all_units[j]) /\ all_units[j].city.v \in {"", "St. Paul"}
          /\ ~In(all_units[j], filtered_units)

-----------------------------------------------------------------------------
(* Claims about the fields of the records.                                 *)

\* A record that has lat and lon has dist_to_campus_km.
HasDistanceWithCoordinates(unit) == Resolved(unit) => unit.dist_to_campus_km # None

\* The same of a row of a file: the cells of lat and lon are filled only when
\* the cell of dist_to_campus_km is.
RowHasDistanceWithCoordinates(row) ==
    (row["lat"] # "" /\ row["lon"] # "") => row["dist_to_campus_km"] # ""

\* C12: every record of a run that has lat and lon set has dist_to_campus_km set,
\* in the lists of the run and in every row of the unfiltered snapshot, of the
\* session snapshot and of the accumulated store.
C12_DistanceWithCoordinates ==
    /\ \A i \in 1..Len(all_units) : HasDistanceWithCoordinates(all_units[i])
    /\ \A i \in 1..Len(filtered_units) : HasDistanceWithCoordinates(filtered_units[i])
    /\ \A file \in {OUTPUT_CSV_ALL, OUTPUT_CSV, PERSISTENT_CSV} :
          \A i \in 1..Len(RowsIn(file)) : RowHasDistanceWithCoordinates(file.rows[i])

-----------------------------------------------------------------------------
(* Claims about the price parsers.                                         *)

\* C13: whenever parse_price_text or parse_rent returns both rent_min and
\* rent_max, rent_min <= rent_max, also for a range written with the larger
\* number first.
C13_RentOrdered ==
    (/\ f_pc = "returned"
     /\ f_ret.fn \in {"parse_price_text", "parse_rent"}
     /\ f_ret.value.rent_min # None
     /\ f_ret.value.rent_max # None) =>
        f_ret.value.rent_min.v <= f_ret.value.rent_max.v

Booleans == {PyBool(TRUE), PyBool(FALSE)}

\* C14: for a non-empty price text parse_price_text returns is_per_bed and
\* is_shared_bedroom as booleans, never None, and the record that parse_unit_row
\* builds carries both.
C14_FlagsAreBooleans ==
    (/\ f_pc = "returned"
     /\ f_ret.fn \in {"parse_price_text", "parse_unit_row"}
     /\ f_args.price_text # <<>>
     /\ f_ret.value # None) =>
        /\ f_ret.value.is_per_bed \in Booleans
        /\ f_ret.value.is_shared_bedroom \in Booleans

\* Length of the longest run of digits, commas and points of s from position i.
RECURSIVE WrittenRun(_, _)
WrittenRun(s, i) ==
    IF i <= Len(s) /\ (IsDigit(s[i]) \/ s[i] \in {",", "."})
    THEN 1 + WrittenRun(s, i + 1)
    ELSE 0

\* The numbers written in a price text, each run of digits with its commas and
\* its point read as one number: "$1,200" and "$1200" both show 1200.
RECURSIVE WrittenNumbers(_, _)
WrittenNumbers(s, i) ==
    IF i > Len(s) THEN <<>>
    ELSE IF ~IsDigit(s[i]) THEN WrittenNumbers(s, i + 1)
    ELSE <<ToFloat(SubSeq(s, i, i + WrittenRun(s, i) - 1))>>
             \o WrittenNumbers(s, i + WrittenRun(s, i))

\* A separator of a range stands in the text: "-", an en dash, or "to".
HasSeparator(text) ==
    \/ Contains(text, <<"-">>)
    \/ Contains(text, <<"en-dash">>)
    \/ Contains(lower(text), <<"t", "o">>)

\* rent_min, rent_max and price_type by the priority of the rule: "from", two
\* numbers with a separator, one number, the minimum and maximum of the rest.
ByPriority(text) ==
    LET n == WrittenNumbers(text, 1)
    IN  IF n = <<>> THEN <<None, None, "unknown">>
        ELSE IF Contains(lower(text), <<"f", "r", "o", "m">>)
        THEN <<PyFloat(n[1]), PyFloat(n[1]), "from_price">>
        ELSE IF Len(n) = 2 /\ HasSeparator(text)
        THEN <<PyFloat(n[1]), PyFloat(n[2]), "range">>
        ELSE IF Len(n) = 1
        THEN <<PyFloat(n[1]), PyFloat(n[1]), "per_unit">>
        ELSE <<PyFloat(SeqMin(n)), PyFloat(SeqMax(n)), "range">>

\* C15: parse_price_text gives rent_min, rent_max and price_type by that priority
\* over the numbers of the price text, None/None without a number; a price_type
\* of per_bed set by the keyword scan stays.  "$1,200" gives 1200/1200/per_unit,
\* "$900 - $1,300" 900/1300/range, "From $800" 800/800/from_price, "$650/bed"
\* is_per_bed true, "" all None and unknown.
C15_PricePriority ==
    (f_pc = "returned" /\ f_ret.fn = "parse_price_text") =>
        LET text == f_args.price_text
            r == f_ret.value
            expected == ByPriority(text)
            alone == f_args.full_text = <<>>
        IN  /\ r.rent_min = expected[1]
            /\ r.rent_max = expected[2]
            /\ r.price_type = IF r.is_per_bed = PyBool(TRUE) THEN PyStr("per_bed")
                              ELSE PyStr(expected[3])
            /\ (text = <<"$", "1", ",", "2", "0", "0">> /\ alone) =>
                  /\ r.rent_min = PyFloat(1200 * Unit) /\ r.rent_max = PyFloat(1200 * Unit)
                  /\ r.price_type = PyStr("per_unit")
            /\ (text = <<"$", "9", "0", "0", " ", "-", " ", "$", "1", ",", "3", "0", "0">> /\ alone) =>
                  /\ r.rent_min = PyFloat(900 * Unit) /\ r.rent_max = PyFloat(1300 * Unit)
                  /\ r.price_type = PyStr("range")
            /\ (text = <<"F", "r", "o", "m", " ", "$", "8", "0", "0">> /\ alone) =>
                  /\ r.rent_min = PyFloat(800 * Unit) /\ r.rent_max = PyFloat(800 * Unit)
                  /\ r.price_type = PyStr("from_price")
            /\ text = <<"$", "6", "5", "0", "/", "b", "e", "d">> => r.is_per_bed = PyBool(TRUE)
            /\ text = <<>> =>
                  r = [rent_min |-> None, rent_max |-> None, price_type |-> PyStr("unknown"),
                       is_per_bed |-> None, is_shared_bedroom |-> None]

-----------------------------------------------------------------------------
(* Claims about sample_units.                                              *)

\* C16: sample_units returns at most 2 units, each of them a unit of its input,
\* returns the empty list for the empty list, and never returns a unit whose
\* rent_min is None.
C16_SampleBound ==
    f_pc = "returned" =>
        /\ Len(f_ret) <= 2
        /\ f_args = <<>> => f_ret = <<>>
        /\ \A k \in 1..Len(f_ret) : f_ret[k].rent_min # None /\ In(f_ret[k], f_args)

\* C16 witness: sample_units returned two units of a list of four that held three
\* different units with a rent and a larger unit without one.
C16_Witness ==
    /\ f_pc = "returned"
    /\ Len(f_args) = 4
    /\ Len(f_ret) = 2
    /\ \E i \in 1..4 :
          /\ f_args[i].rent_min = None
          /\ \A j \in 1..4 : j # i =>
                /\ f_args[j].rent_min # None
                /\ f_args[j].sqft # PyInt(900)
                /\ \A k \in 1..4 : (k # i /\ k # j) => f_args[k] # f_args[j]

\* Unit u does not rank above unit v by size: an unknown sqft ranks below every
\* known sqft.
NotLarger(u, v) == u.sqft = None \/ (v.sqft # None /\ u.sqft.v <= v.sqft.v)

\* The units of the list with a rent and the bedroom count beds.
WithRentAndBeds(units, beds) ==
    {units[i] : i \in {j \in 1..Len(units) :
                          units[j].rent_min # None /\ units[j].beds = PyFloat(beds * Unit)}}

\* Unit u is a largest unit of the list with a rent and the bedroom count beds.
LargestOf(u, units, beds) ==
    /\ u \in WithRentAndBeds(units, beds)
    /\ \A v \in WithRentAndBeds(units, beds) : NotLarger(v, u)

\* C17: when the input holds a unit with a rent and beds == 1.0, the output holds
\* a 1-bed unit with the largest known sqft, unknown sqft ranking below every
\* known one; likewise for beds == 2.0.  For units at beds 1.0, 2.0 and 3.0, each
\* with rent and sqft, the output is exactly the largest 1-bed and the largest
\* 2-bed unit.
C17_LargestPerBedroom ==
    f_pc = "returned" =>
        /\ \A beds \in {1, 2} :
              WithRentAndBeds(f_args, beds) # {} =>
                  \E k \in 1..Len(f_ret) : LargestOf(f_ret[k], f_args, beds)
        /\ (/\ \A i \in 1..Len(f_args) :
                  f_args[i].rent_min # None /\ f_args[i].sqft # None
            /\ {f_args[i].beds : i \in 1..Len(f_args)}
                  = {PyFloat(1 * Unit), PyFloat(2 * Unit), PyFloat(3 * Unit)}) =>
              /\ Len(f_ret) = 2
              /\ LargestOf(f_ret[1], f_args, 1)
              /\ LargestOf(f_ret[2], f_args, 2)

\* C17 witness: from 1-bed units of 700 and 900 sqft, a 2-bed unit and a 3-bed
\* unit, in this order and all with a rent, sample_units returned the 900 sqft
\* 1-bed unit and the 2-bed unit.
C17_Witness ==
    /\ f_pc = "returned"
    /\ Len(f_args) = 4
    /\ \A i \in 1..4 : f_args[i].rent_min # None /\ f_args[i].sqft # None
    /\ f_args[1].beds = PyFloat(1 * Unit) /\ f_args[1].sqft = PyInt(700)
    /\ f_args[2].beds = PyFloat(1 * Unit) /\ f_args[2].sqft = PyInt(900)
    /\ f_args[3].beds = PyFloat(2 * Unit)
    /\ f_args[4].beds = PyFloat(3 * Unit)
    /\ f_ret = <<f_args[2], f_args[3]>>

-----------------------------------------------------------------------------
(* Claims about the files at the end of a run.                             *)

\* C18: every run, of main.py and of umn_listings.py, writes the session
\* snapshot with its header row, however the run ends: when the run is over the
\* file at OUTPUT_CSV is there.
C18_SnapshotWritten == pc = "done" => OUTPUT_CSV.exists

\* The listing_ids of the rows of a file.
IdsOfRows(file) == {RowsIn(file)[i]["listing_id"] : i \in 1..Len(RowsIn(file))}

\* C19: the end of a run rewrites the accumulated store in full: the file is
\* there with the header of the UnitListing fields, and its rows are exactly
\* the merged records, one row for each id of the store before or of the
\* filtered units of the run, also when there is none.
C19_StoreRewritten ==
    [][(pc = "scraping" /\ pc' = "done") =>
          /\ PERSISTENT_CSV'.exists
          /\ \A i \in 1..Len(PERSISTENT_CSV'.rows) : DOMAIN PERSISTENT_CSV'.rows[i] = Fields
          /\ IdsOfRows(PERSISTENT_CSV')
                = IdsOfRows(PERSISTENT_CSV) \cup IdsOfUnits(filtered_units')
          /\ Len(PERSISTENT_CSV'.rows) = Cardinality(IdsOfRows(PERSISTENT_CSV'))]_vars

-----------------------------------------------------------------------------
(* Claims about load_existing_listings.                                    *)

\* The rows of a store that the re-filtering load is to return: those with a
\* listing_id whose distance is unknown or at most SEARCH_RADIUS_KM.
Retained(file) ==
    {i \in 1..Len(RowsIn(file)) :
        /\ file.rows[i]["listing_id"] # ""
        /\ \/ file.rows[i]["dist_to_campus_km"] = ""
           \/ float(file.rows[i]["dist_to_campus_km"]) = None
           \/ float(file.rows[i]["dist_to_campus_km"]).v <= SEARCH_RADIUS_KM * Unit}

\* C20: load_existing_listings returns exactly the rows of the store that have a
\* listing_id and a distance that is unknown or at most SEARCH_RADIUS_KM: every
\* row with a known distance above the radius is left out, every other row with
\* an id is there under its id, the last row of an id standing for it.
C20_LoadRefilters ==
    f_pc = "returned" =>
        /\ Keys(f_ret) = {f_args.rows[i]["listing_id"] : i \in Retained(f_args)}
        /\ \A i \in Retained(f_args) :
              (\A j \in Retained(f_args) :
                  f_args.rows[j]["listing_id"] = f_args.rows[i]["listing_id"] => j <= i)
                  => Lookup(f_ret, f_args.rows[i]["listing_id"]) = ConvertRow(f_args.rows[i])

-----------------------------------------------------------------------------
(* Claims about the round trip through the delimited format.               *)

\* The typed fields: the optional numbers and the booleans.
TypedFields == FloatKeys \cup IntKeys \cup BoolKeys

\* C21: records written with export_combined_csv or export_to_csv and read back
\* with load_existing_listings come back, each under its id, with every boolean
\* and every optional number equal to the one written: True, False and None as
\* True, False and None, a number as the same number, None as None.
C21_RoundTrip ==
    f_pc = "returned" =>
        \A i \in 1..Len(f_args) :
            (\A j \in 1..Len(f_args) :
                f_args[j].listing_id = f_args[i].listing_id => j <= i)
            => /\ f_args[i].listing_id.v \in Keys(f_ret)
               /\ \A f \in TypedFields :
                     Lookup(f_ret, f_args[i].listing_id.v)[f] = f_args[i][f]


\* Reading the store fails at a row: a row with an id whose distance cell is
\* empty makes the comparison with SEARCH_RADIUS_KM raise.
ReadFails(file) ==
    \E i \in 1..Len(RowsIn(file)) :
        /\ file.rows[i]["listing_id"] # ""
        /\ file.rows[i]["dist_to_campus_km"] = ""

\* C22: when the store is missing, or reading it fails at a row, the map that
\* load_existing_listings returns is empty: no existing data, not the rows read
\* before the failure.
C22_FailedLoadIsEmpty ==
    (f_pc = "returned" /\ (~f_args.exists \/ ReadFails(f_args))) => f_ret = <<>>

-----------------------------------------------------------------------------
(* Claims about schema drift.                                              *)

\* The row of the store survives in the rewritten file: a row of its id is
\* there, with the cell of every field the row had, and the default of every
\* field it lacked.
Survives(row, file) ==
    \E k \in 1..Len(RowsIn(file)) :
        /\ file.rows[k]["listing_id"] = row["listing_id"]
        /\ \A f \in Fields :
              file.rows[k][f] = IF f \in DOMAIN row THEN row[f]
                                ELSE CellText(DefaultOf(f))

\* C23: schema drift neither aborts the run nor loses a record.  After load,
\* merge and rewrite of a store whose rows have a column that is no field of
\* UnitListing, or lack a field, nothing was raised and every row of the old
\* store (the last one of each id) is in the new store with its recognised
\* fields, the missing field at its default.  In both scripts.
C23_SchemaDrift ==
    f_pc = "returned" =>
        /\ ~f_ret.raised
        /\ \A i \in 1..Len(f_args.file.rows) :
              (\A j \in 1..Len(f_args.file.rows) :
                  f_args.file.rows[j]["listing_id"] = f_args.file.rows[i]["listing_id"]
                      => j <= i)
              => Survives(f_args.file.rows[i], f_ret.file)

-----------------------------------------------------------------------------
(* Claims about sessions: early stops, the tracking file.                  *)

IsPrefix(a, b) == Len(a) <= Len(b) /\ SubSeq(b, 1, Len(a)) = a

\* The step is the end of a run that collected units: geocode and filter, the
\* session snapshot, the merge into the store.
FinalWrites ==
    /\ Len(all_units') = Len(all_units)
    /\ \A i \in 1..Len(all_units) : all_units'[i].listing_id = all_units[i].listing_id
    /\ IF program = "main"
       THEN \E geo \in ServiceBehaviours(all_units) :
                [units |-> all_units', filtered |-> filtered_units']
                    = geocode_and_filter_units(all_units,
                          Keys(load_existing_listings(PERSISTENT_CSV)), geo)
       ELSE \E geo \in ServiceBehaviours(all_units) :
                [units |-> all_units', filtered |-> filtered_units']
                    = umn_geocode_and_filter_units(all_units, geo)
    /\ OUTPUT_CSV'.exists
    /\ OUTPUT_CSV'.rows = RowsOf(filtered_units')
    /\ IdsOfUnits(filtered_units') \subseteq IdsOfRows(PERSISTENT_CSV')

\* C24: a session that stops early still writes what it collected.  A pass of
\* the loop, failed or not, keeps the units collected so far; once the loop is
\* left early the next step is the end of the run; and at the end of a run with
\* units, every unit is passed to geocode_and_filter_units, the units kept are
\* the session snapshot, and each is in the accumulated store.
C24_PartialResults ==
    [][/\ (pc \in {"scraping", "stopped"} /\ pc' # "done") => IsPrefix(all_units, all_units')
       /\ pc = "stopped" => pc' = "done"
       /\ (pc \in {"scraping", "stopped"} /\ pc' = "done" /\ all_units # <<>>) => FinalWrites
      ]_vars

\* A session of main.py left its loop at the third blocked page, and the units
\* collected before are in the snapshot and in the store.
C24_Witness ==
    /\ program = "main"
    /\ pc = "done"
    /\ consecutive_failures >= BotDetectionFailures
    /\ filtered_units # <<>>
    /\ OUTPUT_CSV.exists /\ OUTPUT_CSV.rows = RowsOf(filtered_units)
    /\ IdsOfUnits(filtered_units) \subseteq IdsOfRows(PERSISTENT_CSV)


\* The unit, as the run leaves it in all_units, was kept by the distance filter:
\* geocoded and within the radius; in umn_listings.py also without coordinates
\* when its city is Minneapolis.  In main.py the units of a persisted id are
\* taken out of the list before the filter.
KeptByFilter(unit, persisted) ==
    IF program = "main"
    THEN /\ unit.listing_id.v \notin persisted
         /\ Resolved(unit)
         /\ WithinRadius(DistOf(unit))
    ELSE IF Resolved(unit) THEN WithinRadius(DistOf(unit))
         ELSE unit.city.v \in MinneapolisCities

\* The positions of seq whose element fulfils Test, in order.
RECURSIVE Those(_, _, _)
Those(seq, Test(_), i) ==
    IF i > Len(seq) THEN <<>>
    ELSE (IF Test(seq[i]) THEN <<seq[i]>> ELSE <<>>) \o Those(seq, Test, i + 1)

\* C25: in a run, a record is added to the accumulated store only if the
\* distance filter kept it and its id was not persisted: every row of the new
\* store under an id that was not in the store is the row of a kept record of
\* this run.  A record whose geocoding failed, that lies beyond the radius or
\* whose id is persisted adds nothing.  The session snapshot holds every record
\* the filter kept, also those that the merge discards as duplicates.
C25_OnlyNewlyMerged ==
    [][(pc # "done" /\ pc' = "done") =>
         LET persisted == IdsOfRows(PERSISTENT_CSV)
             kept == Those(all_units', LAMBDA u : KeptByFilter(u, persisted), 1)
         IN  /\ \A k \in 1..Len(RowsIn(PERSISTENT_CSV')) :
                   PERSISTENT_CSV'.rows[k]["listing_id"] \notin persisted
                       => \E i \in 1..Len(kept) :
                             RowOfRecord(kept[i]) = PERSISTENT_CSV'.rows[k]
             /\ RowsIn(OUTPUT_CSV') = RowsOf(kept)
      ]_vars

\* A run has ended in which the snapshot holds a record that the merge
\* discarded (the store has another row under its id), a record was newly
\* merged, and a record that the filter did not keep is in neither file.
C25_Witness ==
    /\ pc = "done"
    /\ \E k \in 1..Len(RowsIn(OUTPUT_CSV)) :
          /\ OUTPUT_CSV.rows[k]["listing_id"] \in IdsOfRows(PERSISTENT_CSV)
          /\ \A j \in 1..Len(RowsIn(PERSISTENT_CSV)) :
                PERSISTENT_CSV.rows[j] # OUTPUT_CSV.rows[k]
    /\ \E k \in 1..Len(RowsIn(OUTPUT_CSV)) :
          \E j \in 1..Len(RowsIn(PERSISTENT_CSV)) :
             PERSISTENT_CSV.rows[j] = OUTPUT_CSV.rows[k]
    /\ \E i \in 1..Len(all_units) :
          /\ all_units[i].listing_id.v \notin IdsOfRows(PERSISTENT_CSV)
          /\ all_units[i].listing_id.v \notin IdsOfRows(OUTPUT_CSV)

-----------------------------------------------------------------------------
(* Claims about auto_restart_scraper.                                      *)

Locations == {SEARCH_LOCATIONS[i] : i \in 1..Len(SEARCH_LOCATIONS)}

\* C26: a session searches a location whose count is the least of all; the count
\* of a location goes up by one when a session for it completes and no count
\* changes in any other step; so, from empty counts, the counts of two
\* locations never differ by more than 1.
C26_BalancedLocations ==
    [][/\ a_pc' = "session" =>
             \A loc \in Locations :
                 counts_get(location_counts, current_location'.v)
                     <= counts_get(location_counts, loc)
       /\ \A loc \in Locations :
             counts_get(location_counts', loc) =
                 counts_get(location_counts, loc)
                 + (IF a_pc = "session" /\ a_last' = "returned"
                       /\ loc = current_location.v
                    THEN 1 ELSE 0)
       /\ \A l1, l2 \in Locations :
             counts_get(location_counts', l1) - counts_get(location_counts', l2) <= 1
      ]_vars

\* Four sessions have completed: every location was searched, one of them twice.
C26_Witness ==
    /\ \A loc \in Locations : counts_get(location_counts, loc) >= 1
    /\ \E loc \in Locations : counts_get(location_counts, loc) = 2

\* C27: auto_restart_scraper runs at most max_sessions sessions, those that
\* fail with an exception counted, and starts no session after a session at
\* whose end the accumulated store held target_listings records or more.
C27_Terminates ==
    /\ session_num <= a_args.max_sessions
    /\ a_pc = "session" => ~a_reached

-----------------------------------------------------------------------------
(* Claims about the distance as stored.                                    *)

\* C28: a record that the filter of main.py kept is not excluded when the store
\* is loaded again: it was kept on the distance as computed, the store holds the
\* distance rounded to 2 decimals, and that one is not above the radius either;
\* so every row of the store is in the map that load_existing_listings returns.
C28_KeptStaysLoadable ==
    (program = "main" /\ pc = "done") =>
        /\ \A i \in 1..Len(filtered_units) :
              /\ WithinRadius(DistOf(filtered_units[i]))
              /\ filtered_units[i].dist_to_campus_km = PyFloat(round2(DistOf(filtered_units[i])))
              /\ WithinRadius(filtered_units[i].dist_to_campus_km.v)
              /\ filtered_units[i].listing_id.v
                    \in Keys(load_existing_listings(PERSISTENT_CSV))
        /\ IdsOfRows(PERSISTENT_CSV) = Keys(load_existing_listings(PERSISTENT_CSV))

\* A record was kept at a distance below the radius that is stored as 10.0, the
\* radius itself, and the load of the store returns it.
C28_Witness ==
    /\ program = "main"
    /\ pc = "done"
    /\ \E i \in 1..Len(filtered_units) :
          /\ DistOf(filtered_units[i]) < SEARCH_RADIUS_KM * Unit
          /\ filtered_units[i].dist_to_campus_km = PyFloat(SEARCH_RADIUS_KM * Unit)
          /\ \E k \in 1..Len(RowsIn(PERSISTENT_CSV)) :
                /\ PERSISTENT_CSV.rows[k] = RowOfRecord(filtered_units[i])
                /\ PERSISTENT_CSV.rows[k]["dist_to_campus_km"] = "10.0"
          /\ filtered_units[i].listing_id.v \in Keys(load_existing_listings(PERSISTENT_CSV))

-----------------------------------------------------------------------------
(* Claims about the geocoding of a batch.                                  *)

\* The positions of all_units that geocode_and_filter_units works on: in main.py
\* those that the pre-filter on the persisted ids leaves.
Batch ==
    IF program = "main"
    THEN KeptByPrefilter(all_units, Keys(load_existing_listings(PERSISTENT_CSV)))
    ELSE 1..Len(all_units)

\* C29: in one call of geocode_and_filter_units, geocode_address is called at
\* most once for an address and never for the empty address; when a call
\* resolves an address, every unit of the batch with that address gets the
\* coordinates; and of two units of the batch with the same address never one
\* ends resolved and the other unresolved.
C29_OncePerAddress ==
    [][(pc # "done" /\ pc' = "done" /\ all_units # <<>>) =>
         LET calls == GeocodeCalls(all_units,
                                   {i \in Batch : program = "main"
                                                  \/ all_units[i].full_address.v # ""},
                                   1)
         IN  /\ \A m, n \in 1..Len(calls) : m # n => calls[m] # calls[n]
             /\ \A m \in 1..Len(calls) : calls[m] # ""
             /\ \A i, j \in Batch :
                   all_units[i].full_address = all_units[j].full_address =>
                      /\ (~Resolved(all_units[i]) /\ Resolved(all_units'[i]))
                            => /\ all_units'[j].lat = all_units'[i].lat
                               /\ all_units'[j].lon = all_units'[i].lon
                      /\ Resolved(all_units'[i]) <=> Resolved(all_units'[j])
      ]_vars

-----------------------------------------------------------------------------
(* Claims about the tracking file of scraped URLs.                         *)

\* The building of the page has a row in the store.
InStore(page, file) ==
    \E k \in 1..Len(RowsIn(file)) : RowsIn(file)[k]["building_name"] = page.building_name

\* The units of the page's building in the batch were all left without
\* coordinates by the geocoding.
LeftUnresolved(page, units) ==
    /\ \E i \in 1..Len(units) : units[i].building_name.v = page.building_name
    /\ \A i \in 1..Len(units) :
          units[i].building_name.v = page.building_name => ~Resolved(units[i])

\* C30: over the sessions of main.py, with and without skip_scraped, the
\* tracking file only grows, a session skips no URL outside the tracking file
\* and the built-in list, and at the end of a session a building whose units
\* were left unresolved and that has no row in the accumulated store is not
\* among the URLs a later session with skip_scraped skips.
C30_UnstoredStaysEligible ==
    [][/\ SCRAPED_URLS_FILE \subseteq SCRAPED_URLS_FILE'
       /\ scraped_urls' \subseteq KNOWN_SCRAPED_URLS \cup SCRAPED_URLS_FILE'
       /\ (program = "main" /\ pc # "done" /\ pc' = "done") =>
             \A page \in BuildingPages :
                (LeftUnresolved(page, all_units') /\ ~InStore(page, PERSISTENT_CSV'))
                   => page.source_url \notin load_scraped_urls(SCRAPED_URLS_FILE')
      ]_vars

=============================================================================
